---- MODULE Spec2Model ----
(***************************************************************************)
(* Tiered query router of the AI incident assistant:                       *)
(*   app/agent/rule_matcher.py     override rules (tier 1)                 *)
(*   app/agent/semantic_router.py  route(): override -> semantic -> fallback*)
(*   app/agent/routing_config.py   thresholds and the default route        *)
(*   app/agent/routing_logger.py   decision log                            *)
(*                                                                         *)
(* Conventions.                                                            *)
(*  - A Python str is a sequence of one-character strings, so that         *)
(*    str.lower(), the `in` substring test and slicing are computed.       *)
(*  - A Python dict is a function whose DOMAIN is its key set; d.get(k, v) *)
(*    is Get(d, k, v) and `k in d` is k \in DOMAIN d.                      *)
(*  - A float confidence c is the integer c * One; a distance d is the   *)
(*    integer d * 100, so 1 - d/2 is exact on the grid of distances.       *)
(*  - A Python call that can raise returns a record with a field exc,      *)
(*    "none" when it returned normally.                                    *)
(***************************************************************************)
EXTENDS Integers, Sequences, FiniteSets, TLC

(***************************************************************************)
(* Python built-ins used by the code                                       *)
(***************************************************************************)
Get(d, k, default) == IF k \in DOMAIN d THEN d[k] ELSE default

EmptyDict == <<>>

UpperChars ==
    <<"A","B","C","D","E","F","G","H","I","J","K","L","M",
      "N","O","P","Q","R","S","T","U","V","W","X","Y","Z">>

LowerChars ==
    <<"a","b","c","d","e","f","g","h","i","j","k","l","m",
      "n","o","p","q","r","s","t","u","v","w","x","y","z">>

ToLower == [c \in {UpperChars[i] : i \in 1..26} |->
               LowerChars[CHOOSE i \in 1..26 : UpperChars[i] = c]]

LowerChar(c) == IF c \in DOMAIN ToLower THEN ToLower[c] ELSE c

\* str.lower()
Lower(s) == [i \in 1..Len(s) |-> LowerChar(s[i])]

\* sub in s
Contains(sub, s) ==
    \E i \in 0..(Len(s) - Len(sub)) : \A k \in 1..Len(sub) : s[i + k] = sub[k]

\* s[:n]
Take(s, n) == SubSeq(s, 1, IF Len(s) < n THEN Len(s) ELSE n)

Digits == {"0","1","2","3","4","5","6","7","8","9"}

(***************************************************************************)
(* re.search(pattern, query, re.IGNORECASE)                                *)
(*                                                                         *)
(* A pattern value of the YAML file is one of                              *)
(*   kind "regex"     a str that compiles: a sequence of atoms, each a     *)
(*                    literal character or \d with a repetition lo..hi     *)
(*   kind "re_error"  a str re rejects with re.error, e.g. "("             *)
(*   kind "overflow"  a str re rejects with OverflowError,                 *)
(*                    e.g. "a{99999999999999999999}"                       *)
(*   kind "nonstr"    a YAML scalar that is no str, e.g. 2024: TypeError   *)
(***************************************************************************)
\* hi < 0 stands for an unbounded repetition (+)
Lit(c) == [cls |-> "lit", ch |-> c, lo |-> 1, hi |-> 1]

Digit(lo, hi) == [cls |-> "digit", ch |-> "0", lo |-> lo, hi |-> hi]

AtomMatches(atom, c) ==
    IF atom.cls = "digit" THEN c \in Digits
    ELSE LowerChar(atom.ch) = LowerChar(c)

RECURSIVE MatchHere(_, _, _, _)
MatchHere(atoms, i, s, j) ==
    IF i > Len(atoms) THEN TRUE
    ELSE LET a    == atoms[i]
             rest == Len(s) - j + 1
             top  == IF a.hi < 0 \/ a.hi > rest THEN rest ELSE a.hi
         IN \E n \in a.lo..top :
               /\ \A k \in 0..(n - 1) : AtomMatches(a, s[j + k])
               /\ MatchHere(atoms, i + 1, s, j + n)

re_search(pattern, query) ==
    CASE pattern.kind = "regex" ->
            [exc |-> "none",
             val |-> \E start \in 1..(Len(query) + 1) :
                        MatchHere(pattern.atoms, 1, query, start)]
      [] pattern.kind = "re_error" -> [exc |-> "re.error", val |-> FALSE]
      [] pattern.kind = "overflow" -> [exc |-> "OverflowError", val |-> FALSE]
      [] OTHER                     -> [exc |-> "TypeError", val |-> FALSE]

(***************************************************************************)
(* RuleMatcher (rule_matcher.py)                                           *)
(***************************************************************************)
\* the loop of _matches_regex over the pattern list: re.error is caught and
\* the loop continues, any other exception leaves the loop and the method
RECURSIVE scan_patterns(_, _, _)
scan_patterns(patterns, i, query) ==
    IF i > Len(patterns) THEN [exc |-> "none", val |-> FALSE]
    ELSE LET step(r) ==
                 IF r.exc = "none" /\ r.val THEN [exc |-> "none", val |-> TRUE]
                 ELSE IF r.exc \in {"none", "re.error"}
                      THEN scan_patterns(patterns, i + 1, query)
                      ELSE [exc |-> r.exc, val |-> FALSE]
         IN step(re_search(patterns[i], query))

\* as _matches_regex, but the rule's list is replaced by the single pattern
matches_regex_replace(query, rule) ==
    LET patterns0 == Get(rule, "patterns", <<>>)
        patterns  == IF "pattern" \in DOMAIN rule
                     THEN Append(patterns0, rule["pattern"])
                     ELSE patterns0
        rule1     == IF "pattern" \in DOMAIN rule /\ "patterns" \in DOMAIN rule
                     THEN [rule EXCEPT !["patterns"] = <<rule["pattern"]>>]
                     ELSE rule
        result(r) == [exc |-> r.exc, val |-> r.val, rule |-> rule1]
    IN result(scan_patterns(patterns, 1, query))

\* _matches_regex: rule.get('patterns', []) is the rule's own list when the
\* key is present, so the append of rule['pattern'] changes the rule
matches_regex(query, rule) ==
    LET patterns0 == Get(rule, "patterns", <<>>)
        patterns  == IF "pattern" \in DOMAIN rule
                     THEN Append(patterns0, rule["pattern"])
                     ELSE patterns0
        rule1     == IF "pattern" \in DOMAIN rule /\ "patterns" \in DOMAIN rule
                     THEN [rule EXCEPT !["patterns"] = patterns]
                     ELSE rule
        result(r) == [exc |-> r.exc, val |-> r.val, rule |-> rule1]
    IN result(scan_patterns(patterns, 1, query))

\* as _matches_keywords, but the keywords are not lower-cased
matches_keywords_cased(query, rule) ==
    LET keywords    == Get(rule, "keywords", <<>>)
        require_all == Get(rule, "require_all", FALSE)
        query_lower == Lower(query)
    IN IF require_all
       THEN \A i \in 1..Len(keywords) : Contains(keywords[i], query_lower)
       ELSE \E i \in 1..Len(keywords) : Contains(keywords[i], query_lower)

\* _matches_keywords
matches_keywords(query, rule) ==
    LET keywords    == Get(rule, "keywords", <<>>)
        require_all == Get(rule, "require_all", FALSE)
        query_lower == Lower(query)
    IN IF require_all
       THEN \A i \in 1..Len(keywords) : Contains(Lower(keywords[i]), query_lower)
       ELSE \E i \in 1..Len(keywords) : Contains(Lower(keywords[i]), query_lower)

TypeRegex == <<"r","e","g","e","x">>

TypeKeyword == <<"k","e","y","w","o","r","d">>

matches_rule(query, rule) ==
    LET rule_type == Lower(Get(rule, "type", <<>>))
    IN IF rule_type = TypeRegex THEN matches_regex(query, rule)
       ELSE IF rule_type = TypeKeyword
            THEN [exc |-> "none", val |-> matches_keywords(query, rule), rule |-> rule]
            ELSE [exc |-> "none", val |-> FALSE, rule |-> rule]

\* the float 1.0; every confidence and similarity c is the integer c * One
One == 200

build_response(rule) ==
    LET route == Get(rule, "route", EmptyDict)
    IN [use_rag          |-> Get(route, "use_rag", FALSE),
        use_logs         |-> Get(route, "use_logs", FALSE),
        use_web_search   |-> Get(route, "use_web_search", FALSE),
        reason           |-> Get(rule, "reason", <<"override:unknown">>),
        confidence       |-> One,
        category         |-> Get(rule, "category", "unknown"),
        matched_rule     |-> Get(rule, "name", "unknown"),
        rule_description |-> Get(rule, "description", ""),
        method           |-> "override"]

NoDecision == EmptyDict

\* the loop of check_overrides: the rules are evaluated in list order up to
\* and including the first one that matches or raises
RECURSIVE evaluate_rules(_, _, _)
evaluate_rules(query, rules, i) ==
    IF i > Len(rules) THEN <<>>
    ELSE LET step(m) ==
                 IF m.exc # "none" \/ m.val THEN <<m>>
                 ELSE <<m>> \o evaluate_rules(query, rules, i + 1)
         IN step(matches_rule(query, rules[i]))

\* check_overrides past its guard; evaluating a rule may change it
check_loop(query, rules) ==
    LET finish(outcome) ==
            LET n      == Len(outcome)
                rules1 == [i \in 1..Len(rules) |->
                              IF i <= n THEN outcome[i].rule ELSE rules[i]]
            IN IF n = 0 \/ (outcome[n].exc = "none" /\ ~outcome[n].val)
               THEN [exc |-> "none", val |-> NoDecision, rules |-> rules1]
               ELSE IF outcome[n].exc # "none"
                    THEN [exc |-> outcome[n].exc, val |-> NoDecision, rules |-> rules1]
                    ELSE [exc |-> "none", val |-> build_response(outcome[n].rule),
                          rules |-> rules1]
    IN finish(evaluate_rules(query, rules, 1))

\* matcher is the RuleMatcher object: [rules, initialized]
check_overrides(matcher, query) ==
    IF ~matcher.initialized \/ Len(matcher.rules) = 0
    THEN [exc |-> "none", val |-> NoDecision, rules |-> matcher.rules]
    ELSE check_loop(query, matcher.rules)

\* sorted(overrides, key=priority, reverse=True): stable, ties keep file order
RECURSIVE sorted_by_priority(_)
sorted_by_priority(overrides) ==
    IF Len(overrides) = 0 THEN <<>>
    ELSE LET prio(r) == Get(r, "priority", 0)
             top == CHOOSE i \in 1..Len(overrides) :
                       /\ \A j \in 1..Len(overrides) : prio(overrides[j]) <= prio(overrides[i])
                       /\ \A j \in 1..(i - 1) : prio(overrides[j]) < prio(overrides[i])
             rest == [k \in 1..(Len(overrides) - 1) |->
                         IF k < top THEN overrides[k] ELSE overrides[k + 1]]
         IN <<overrides[top]>> \o sorted_by_priority(rest)

\* an entry of the overrides list is a YAML mapping; an entry that is a bare
\* scalar (a str) is written [scalar |-> text]
IsMapping(entry) == "scalar" \notin DOMAIN entry

\* a loader that falls back to a built-in rule when the file cannot be used
load_config_builtin(file) ==
    IF file.status = "ok" /\ \A i \in 1..Len(file.overrides) : IsMapping(file.overrides[i])
    THEN [rules |-> sorted_by_priority(file.overrides), initialized |-> TRUE]
    ELSE [rules |-> << [name |-> "builtin", type |-> TypeKeyword,
                        keywords |-> << <<"l","o","g","i","n">> >>,
                        route |-> [use_logs |-> TRUE]] >>,
          initialized |-> TRUE]

\* RuleMatcher.__init__ with _load_config: file is the state of CONFIG_FILE.
\* sorted() computes key(r) = r.get('priority', 0) for every entry first; on
\* an entry that is no mapping it raises AttributeError, which __init__
\* catches with rules and initialized left as constructed
load_config(file) ==
    IF file.status = "ok" /\ \A i \in 1..Len(file.overrides) : IsMapping(file.overrides[i])
    THEN [rules |-> sorted_by_priority(file.overrides), initialized |-> TRUE]
    ELSE [rules |-> <<>>, initialized |-> FALSE]

(***************************************************************************)
(* routing_config.py                                                       *)
(***************************************************************************)
SEMANTIC_SIMILARITY_THRESHOLD == 150

MIN_CONFIDENCE_THRESHOLD == 120

HIGH_CONFIDENCE_THRESHOLD == 170

MAX_SEARCH_RESULTS == 3

\* as DEFAULT_ROUTE, but with no capability enabled
DEFAULT_ROUTE_no_flag ==
    [use_rag        |-> FALSE,
     use_logs       |-> FALSE,
     use_web_search |-> FALSE,
     reason         |-> <<"fallback:default-rag">>,
     confidence     |-> 60]

DEFAULT_ROUTE ==
    [use_rag        |-> TRUE,
     use_logs       |-> FALSE,
     use_web_search |-> FALSE,
     reason         |-> <<"fallback:default-rag">>,
     confidence     |-> 60]

(***************************************************************************)
(* The Example Index: a ChromaDB collection.  An example is                *)
(* [document, metadata, dist], dist[q] being the distance (times 100) the  *)
(* embedding puts between the example and query q.                         *)
(***************************************************************************)
\* collection.query(query_texts=[q], n_results=k): the k nearest examples,
\* nearest first
RECURSIVE nearest(_, _, _)
nearest(examples, q, k) ==
    IF k = 0 \/ Len(examples) = 0 THEN <<>>
    ELSE LET top == CHOOSE i \in 1..Len(examples) :
                       /\ \A j \in 1..Len(examples) : examples[i].dist[q] <= examples[j].dist[q]
                       /\ \A j \in 1..(i - 1) : examples[i].dist[q] < examples[j].dist[q]
             rest == [n \in 1..(Len(examples) - 1) |->
                         IF n < top THEN examples[n] ELSE examples[n + 1]]
         IN <<examples[top]>> \o nearest(rest, q, k - 1)

\* handle is the collection the router holds, store the database on disk: the
\* query fails when the store is unavailable or the collection is gone
collection_query(handle, store, q, k) ==
    IF store.fault \/ ~store.present \/ store.gen # handle
    THEN [exc |-> "Exception", val |-> <<>>]
    ELSE [exc |-> "none", val |-> nearest(store.examples, q, k)]

(***************************************************************************)
(* SemanticRouter (semantic_router.py)                                     *)
(***************************************************************************)
\* as Similarity, but without halving the distance
Similarity_no_half(top_distance) == One - (top_distance * One) \div 100

\* 1 - (top_distance / 2)
Similarity(top_distance) == One - (top_distance * One) \div 200

\* as band, but with HIGH_CONFIDENCE_THRESHOLD for the first test
band_high(similarity) ==
    IF similarity >= HIGH_CONFIDENCE_THRESHOLD THEN "match"
    ELSE IF similarity >= MIN_CONFIDENCE_THRESHOLD THEN "low_conf"
    ELSE "below"

\* the if / elif / else of _semantic_search on the similarity
band(similarity) ==
    IF similarity >= SEMANTIC_SIMILARITY_THRESHOLD THEN "match"
    ELSE IF similarity >= MIN_CONFIDENCE_THRESHOLD THEN "low_conf"
    ELSE "below"

semantic_search(handle, store, user_msg) ==
    LET decide(results) ==
       IF results.exc # "none" THEN [exc |-> results.exc, val |-> NoDecision]
       ELSE IF Len(results.val) = 0 THEN [exc |-> "none", val |-> DEFAULT_ROUTE]
       ELSE
         LET top_document == results.val[1].document
             top_distance == results.val[1].dist[user_msg]
             top_metadata == results.val[1].metadata
             similarity   == Similarity(top_distance)
             category     == Get(top_metadata, "category", "unknown")
             match ==
                 [use_rag         |-> top_metadata["use_rag"],
                  use_logs        |-> top_metadata["use_logs"],
                  use_web_search  |-> top_metadata["use_web_search"],
                  reason          |-> <<"semantic:", category>>,
                  confidence      |-> similarity,
                  matched_example |-> Take(top_document, 100),
                  category        |-> category,
                  match_source    |-> Get(top_metadata, "source", "unknown")]
         IN IF band(similarity) = "match"
            THEN [exc |-> "none", val |-> match]
            ELSE IF band(similarity) = "low_conf"
                 THEN [exc |-> "none",
                       val |-> [match EXCEPT !.reason = <<"semantic_low_conf:", category>>]
                               @@ [warning |-> "Low confidence match - may need review"]]
                 ELSE [exc |-> "ValueError", val |-> NoDecision]
    IN decide(collection_query(handle, store, user_msg, MAX_SEARCH_RESULTS))

threat_keywords ==
    << <<"c","v","e">>,
       <<"v","u","l","n","e","r","a","b","i","l","i","t","y">>,
       <<"v","u","l","n","e","r","a","b","i","l","i","t","i","e","s">>,
       <<"e","x","p","l","o","i","t">>,
       <<"e","x","p","l","o","i","t","s">>,
       <<"t","h","r","e","a","t">>,
       <<"t","h","r","e","a","t","s">>,
       <<"m","a","l","w","a","r","e">>,
       <<"b","r","e","a","c","h">>,
       <<"a","t","t","a","c","k">> >>

auth_keywords ==
    << <<"l","o","g","i","n">>,
       <<"l","o","g","i","n","s">>,
       <<"f","a","i","l","e","d">>,
       <<"a","u","t","h">>,
       <<"a","u","t","h","e","n","t","i","c","a","t","i","o","n">>,
       <<"a","t","t","e","m","p","t">>,
       <<"a","t","t","e","m","p","t","s">>,
       <<"l","o","g","o","u","t">>,
       <<"l","o","g","o","u","t","s">>,
       <<"p","a","s","s","w","o","r","d">> >>

policy_keywords ==
    << <<"p","o","l","i","c","y">>,
       <<"p","o","l","i","c","i","e","s">>,
       <<"p","l","a","y","b","o","o","k">>,
       <<"p","l","a","y","b","o","o","k","s">>,
       <<"p","r","o","c","e","d","u","r","e">>,
       <<"p","r","o","c","e","d","u","r","e","s">>,
       <<"p","r","o","c","e","s","s">>,
       <<"p","r","o","c","e","s","s","e","s">>,
       <<"g","u","i","d","e","l","i","n","e">>,
       <<"g","u","i","d","e","l","i","n","e","s">> >>

\* any(word in t for word in words)
AnyWordIn(words, t) == \E i \in 1..Len(words) : Contains(words[i], t)

\* as _default_fallback, but the auth terms are tested before the threat terms
default_fallback_auth_first(user_msg) ==
    LET t == Lower(user_msg)
    IN IF AnyWordIn(auth_keywords, t)
       THEN [use_rag |-> FALSE, use_logs |-> TRUE, use_web_search |-> FALSE,
             reason |-> <<"fallback:authentication-logs">>,
             confidence |-> 100, category |-> "authentication_logs"]
       ELSE IF AnyWordIn(threat_keywords, t)
       THEN [use_rag |-> FALSE, use_logs |-> FALSE, use_web_search |-> TRUE,
             reason |-> <<"fallback:threat-intelligence">>,
             confidence |-> 100, category |-> "threat_intelligence"]
       ELSE IF AnyWordIn(policy_keywords, t)
       THEN [use_rag |-> TRUE, use_logs |-> FALSE, use_web_search |-> FALSE,
             reason |-> <<"fallback:policy-guidance">>,
             confidence |-> 100, category |-> "policy_guidance"]
       ELSE DEFAULT_ROUTE

\* _default_fallback
default_fallback(user_msg) ==
    LET t == Lower(user_msg)
    IN IF AnyWordIn(threat_keywords, t)
       THEN [use_rag |-> FALSE, use_logs |-> FALSE, use_web_search |-> TRUE,
             reason |-> <<"fallback:threat-intelligence">>,
             confidence |-> 100, category |-> "threat_intelligence"]
       ELSE IF AnyWordIn(auth_keywords, t)
       THEN [use_rag |-> FALSE, use_logs |-> TRUE, use_web_search |-> FALSE,
             reason |-> <<"fallback:authentication-logs">>,
             confidence |-> 100, category |-> "authentication_logs"]
       ELSE IF AnyWordIn(policy_keywords, t)
       THEN [use_rag |-> TRUE, use_logs |-> FALSE, use_web_search |-> FALSE,
             reason |-> <<"fallback:policy-guidance">>,
             confidence |-> 100, category |-> "policy_guidance"]
       ELSE DEFAULT_ROUTE

\* get_matcher(): the singleton, created from the configuration file on first use
get_matcher(instance, file) ==
    IF instance.created THEN instance
    ELSE [created |-> TRUE] @@ load_config(file)

\* as tier 1, but a matching override does not end the call
tier1_fallthrough(instance, file, user_msg) ==
    LET result(matcher, t) ==
            [exc     |-> "none",
             hit     |-> FALSE,
             val     |-> t.val,
             matcher |-> [matcher EXCEPT !.rules = t.rules]]
        check(matcher) == result(matcher, check_overrides(matcher, user_msg))
    IN check(get_matcher(instance, file))

\* TIER 1 of route(): get_matcher() and check_overrides() inside try / except
\* Exception, so nothing they raise leaves the tier; hit is `if override_result`
tier1(instance, file, user_msg) ==
    LET result(matcher, t) ==
            [exc     |-> "none",
             hit     |-> t.exc = "none" /\ DOMAIN t.val # {},
             val     |-> t.val,
             matcher |-> [matcher EXCEPT !.rules = t.rules]]
        check(matcher) == result(matcher, check_overrides(matcher, user_msg))
    IN check(get_matcher(instance, file))

\* as tier 2, but only ValueError is caught
tier2_uncaught(router, store, user_msg) ==
    IF router.initialized /\ router.collection # 0
    THEN LET result(t) ==
                 [ran |-> TRUE,
                  exc |-> IF t.exc \in {"none", "ValueError"} THEN "none" ELSE t.exc,
                  hit |-> t.exc = "none", val |-> t.val]
         IN result(semantic_search(router.collection, store, user_msg))
    ELSE [ran |-> FALSE, exc |-> "none", hit |-> FALSE, val |-> NoDecision]

\* TIER 2 of route(): _semantic_search() when the router holds a collection;
\* ValueError (low similarity) and every other exception are caught
tier2(router, store, user_msg) ==
    IF router.initialized /\ router.collection # 0
    THEN LET result(t) ==
                 [ran |-> TRUE, exc |-> "none", hit |-> t.exc = "none", val |-> t.val]
         IN result(semantic_search(router.collection, store, user_msg))
    ELSE [ran |-> FALSE, exc |-> "none", hit |-> FALSE, val |-> NoDecision]

\* route() up to its return value; the Decision Log write is in the action.
\* tiers lists the tiers the call consulted, in order.
route(router, instance, file, store, user_msg, ms) ==
    LET stamp(d, m) == d @@ [execution_time_ms |-> ms, method |-> m]
        decide(t1, t2) ==
            IF t1.exc # "none"
            THEN [exc |-> t1.exc, val |-> NoDecision, matcher |-> t1.matcher,
                  tiers |-> <<"override">>]
            ELSE IF t1.hit
            THEN [exc |-> "none", val |-> stamp(t1.val, "override"),
                  matcher |-> t1.matcher, tiers |-> <<"override">>]
            ELSE IF t2.exc # "none"
            THEN [exc |-> t2.exc, val |-> NoDecision, matcher |-> t1.matcher,
                  tiers |-> <<"override", "semantic">>]
            ELSE IF t2.hit
            THEN [exc |-> "none", val |-> stamp(t2.val, "semantic"),
                  matcher |-> t1.matcher, tiers |-> <<"override", "semantic">>]
            ELSE [exc |-> "none", val |-> stamp(default_fallback(user_msg), "fallback"),
                  matcher |-> t1.matcher,
                  tiers |-> IF t2.ran THEN <<"override", "semantic", "fallback">>
                            ELSE <<"override", "fallback">>]
    IN decide(tier1(instance, file, user_msg), tier2(router, store, user_msg))

(***************************************************************************)
(* Inputs: queries, rule definitions, configuration files, example stores  *)
(***************************************************************************)
Q_empty == <<>>

Q_cve_login == <<"c","v","e"," ","l","o","g","i","n">>

Q_login_policy == <<"L","o","g","i","n"," ","P","o","l","i","c","y">>

Q_zzqx == <<"z","z","q","x">>

Q_cve_id == <<"C","V","E","-","2","0","2","4","-","1">>

Q_playbooks == <<"P","l","a","y","b","o","o","k","s">>

Queries == {Q_empty, Q_cve_login, Q_login_policy, Q_zzqx, Q_cve_id, Q_playbooks}

\* CVE-\d{4}-\d+
P_cve == [kind |-> "regex",
          atoms |-> <<Lit("C"), Lit("V"), Lit("E"), Lit("-"), Digit(4, 4),
                      Lit("-"), Digit(1, -1)>>]

\* login
P_login == [kind |-> "regex", atoms |-> <<Lit("l"), Lit("o"), Lit("g"), Lit("i"), Lit("n")>>]

\* play
P_play == [kind |-> "regex", atoms |-> <<Lit("p"), Lit("l"), Lit("a"), Lit("y")>>]

\* "(" : re.error
P_unbalanced == [kind |-> "re_error", atoms |-> <<>>]

\* "a{99999999999999999999}" : OverflowError
P_overflow == [kind |-> "overflow", atoms |-> <<>>]

\* 2024 : TypeError
P_number == [kind |-> "nonstr", atoms |-> <<>>]

R_cve ==
    [name |-> "cve_id", type |-> TypeRegex, pattern |-> P_cve, priority |-> 100,
     route |-> [use_web_search |-> TRUE], reason |-> <<"override:cve-id">>,
     category |-> "threat_intelligence", description |-> "CVE identifier"]

R_cve_kw ==
    [name |-> "cve_kw", type |-> TypeKeyword, keywords |-> <<<<"C","V","E">>>>,
     priority |-> 50,
     route |-> [use_rag |-> FALSE, use_logs |-> TRUE, use_web_search |-> FALSE],
     reason |-> <<"override:cve-keyword">>, category |-> "authentication_logs"]

R_tie ==
    [name |-> "login_tie", type |-> TypeKeyword, keywords |-> <<<<"l","o","g","i","n">>>>,
     priority |-> 50,
     route |-> [use_rag |-> FALSE, use_logs |-> TRUE, use_web_search |-> TRUE],
     reason |-> <<"override:login">>, category |-> "authentication_logs"]

R_login_any ==
    [name |-> "login_any", type |-> <<"K","e","y","w","o","r","d">>,
     keywords |-> <<<<"l","o","g","i","n">>, <<"z","z">>>>, require_all |-> FALSE, priority |-> 10,
     route |-> [use_logs |-> TRUE], reason |-> <<"override:login-any">>,
     category |-> "authentication_logs"]

R_login_pol ==
    [name |-> "login_policy", type |-> TypeKeyword,
     keywords |-> <<<<"l","o","g","i","n">>, <<"P","O","L","I","C","Y">>>>, require_all |-> TRUE, priority |-> 90,
     route |-> [use_rag |-> TRUE, use_logs |-> TRUE, use_web_search |-> FALSE],
     reason |-> <<"override:login-policy">>, category |-> "logs_and_policy"]

R_noflags ==
    [type |-> TypeKeyword, keywords |-> <<<<"z","z","q","x">>>>]

R_overflow ==
    [name |-> "huge_repeat", type |-> TypeRegex, patterns |-> <<P_overflow>>,
     priority |-> 200, route |-> [use_rag |-> TRUE],
     reason |-> <<"override:huge">>, category |-> "policy_guidance"]

R_number ==
    [name |-> "number", type |-> TypeRegex, pattern |-> P_number, priority |-> 5,
     route |-> [use_rag |-> TRUE], reason |-> <<"override:number">>,
     category |-> "policy_guidance"]

R_bad ==
    [name |-> "bad_then_login", type |-> TypeRegex,
     patterns |-> <<P_unbalanced, P_login>>, priority |-> 70,
     route |-> [use_rag |-> TRUE], reason |-> <<"override:bad">>,
     category |-> "policy_guidance"]

R_both ==
    [name |-> "both", type |-> TypeRegex, pattern |-> P_cve, patterns |-> <<P_play>>,
     priority |-> 60, route |-> [use_web_search |-> TRUE],
     reason |-> <<"override:both">>, category |-> "threat_intelligence"]

R_untyped ==
    [name |-> "untyped", keywords |-> <<<<"l","o","g","i","n">>>>, priority |-> 300,
     route |-> [use_rag |-> TRUE]]

Cfg_absent == [status |-> "absent", overrides |-> <<>>]

Cfg_corrupt == [status |-> "corrupt", overrides |-> <<>>]

Cfg_none == [status |-> "ok", overrides |-> <<>>]

Cfg_priorities ==
    [status |-> "ok",
     overrides |-> <<R_cve_kw, R_tie, R_login_any, R_cve, R_login_pol>>]

Cfg_overflow == [status |-> "ok", overrides |-> <<R_cve_kw, R_overflow, R_number>>]

Cfg_number == [status |-> "ok", overrides |-> <<R_number, R_cve_kw>>]

Cfg_loose == [status |-> "ok", overrides |-> <<R_noflags, R_both, R_untyped, R_bad>>]

ConfigFiles ==
    {Cfg_absent, Cfg_corrupt, Cfg_none, Cfg_priorities, Cfg_overflow, Cfg_number,
     Cfg_loose}

\* dist as a function of the query
Dist(a, b, c, d, e, f) ==
    (Q_empty :> a) @@ (Q_cve_login :> b) @@ (Q_login_policy :> c)
       @@ (Q_zzqx :> d) @@ (Q_cve_id :> e) @@ (Q_playbooks :> f)

Meta(category, rag, logs, web, source) ==
    [category |-> category, use_rag |-> rag, use_logs |-> logs,
     use_web_search |-> web, source |-> source]

D_pwd == <<"p","a","s","s","w","o","r","d"," ","p","o","l","i","c","y"," ","g","u","i","d","a","n","c","e">>

D_logs == <<"f","a","i","l","e","d"," ","l","o","g","i","n"," ","a","t","t","e","m","p","t","s">>

D_cve == <<"c","v","e"," ","l","o","o","k","u","p">>

D_misc == <<"z","z","q","x"," ","s","t","a","t","u","s">>

ExamplesA ==
    << [document |-> D_pwd, dist |-> Dist(100, 190, 20, 190, 120, 0),
        metadata |-> Meta("policy_guidance", TRUE, FALSE, FALSE, "manual_seed")],
       [document |-> D_logs, dist |-> Dist(110, 40, 50, 250, 130, 150),
        metadata |-> Meta("authentication_logs", FALSE, TRUE, FALSE, "manual_seed")],
       [document |-> D_cve, dist |-> Dist(120, 80, 90, 190, 60, 160),
        metadata |-> Meta("threat_intelligence", FALSE, FALSE, TRUE, "manual_seed")],
       [document |-> D_misc, dist |-> Dist(130, 200, 200, 50, 140, 170),
        metadata |-> Meta("unknown", FALSE, FALSE, FALSE, "audit_log")] >>

ExamplesB ==
    << [document |-> D_logs, dist |-> Dist(90, 90, 31, 250, 60, 210),
        metadata |-> Meta("authentication_logs", FALSE, TRUE, FALSE, "manual_seed")],
       [document |-> D_pwd, dist |-> Dist(80, 81, 30, 240, 51, 200),
        metadata |-> Meta("policy_guidance", TRUE, FALSE, FALSE, "manual_seed")] >>

Store_missing ==
    [exists |-> FALSE, present |-> FALSE, gen |-> 0, examples |-> <<>>, fault |-> FALSE]

Store_no_collection ==
    [exists |-> TRUE, present |-> FALSE, gen |-> 0, examples |-> <<>>, fault |-> FALSE]

Store_empty ==
    [exists |-> TRUE, present |-> TRUE, gen |-> 1, examples |-> <<>>, fault |-> FALSE]

Store_A ==
    [exists |-> TRUE, present |-> TRUE, gen |-> 1, examples |-> ExamplesA, fault |-> FALSE]

Store_B ==
    [exists |-> TRUE, present |-> TRUE, gen |-> 1, examples |-> ExamplesB, fault |-> FALSE]

Stores == {Store_missing, Store_no_collection, Store_empty, Store_A, Store_B}

\* the deployments explored: every configuration file over Store_A, every
\* store under the rule-free configuration, and three mixed ones
Environments ==
    {<<c, Store_A>> : c \in ConfigFiles} \cup {<<Cfg_none, st>> : st \in Stores}
       \cup {<<Cfg_overflow, Store_B>>, <<Cfg_loose, Store_missing>>,
             <<Cfg_absent, Store_empty>>}

ExecTimes == {12}

MaxLog == 1

MaxPatterns == 3

(***************************************************************************)
(* RoutingLogger.log_decision (routing_logger.py): the row it inserts      *)
(***************************************************************************)
Null == "None"

\* int(bool)
IntOf(b) == IF b THEN 1 ELSE 0

\* as log_row, but the category of the decision is not kept
log_row_no_category(query, decision, timestamp) ==
    [timestamp         |-> timestamp,
     query             |-> Take(query, 500),
     method            |-> Get(decision, "method", "unknown"),
     category          |-> "unknown",
     use_rag           |-> IntOf(Get(decision, "use_rag", FALSE)),
     use_logs          |-> IntOf(Get(decision, "use_logs", FALSE)),
     use_web_search    |-> IntOf(Get(decision, "use_web_search", FALSE)),
     confidence        |-> Get(decision, "confidence", Null),
     reason            |-> Get(decision, "reason", <<>>),
     matched_example   |-> Take(Get(decision, "matched_example", <<>>), 200),
     matched_rule      |-> Get(decision, "matched_rule", ""),
     match_source      |-> Get(decision, "match_source", ""),
     execution_time_ms |-> Get(decision, "execution_time_ms", Null),
     user_feedback     |-> Null,
     notes             |-> Null]

log_row(query, decision, timestamp) ==
    [timestamp         |-> timestamp,
     query             |-> Take(query, 500),
     method            |-> Get(decision, "method", "unknown"),
     category          |-> Get(decision, "category", "unknown"),
     use_rag           |-> IntOf(Get(decision, "use_rag", FALSE)),
     use_logs          |-> IntOf(Get(decision, "use_logs", FALSE)),
     use_web_search    |-> IntOf(Get(decision, "use_web_search", FALSE)),
     confidence        |-> Get(decision, "confidence", Null),
     reason            |-> Get(decision, "reason", <<>>),
     matched_example   |-> Take(Get(decision, "matched_example", <<>>), 200),
     matched_rule      |-> Get(decision, "matched_rule", ""),
     match_source      |-> Get(decision, "match_source", ""),
     execution_time_ms |-> Get(decision, "execution_time_ms", Null),
     user_feedback     |-> Null,
     notes             |-> Null]

\* what can go wrong with the Decision Log: nothing, get_logger() cannot
\* construct the RoutingLogger (directory or database not reachable), or the
\* connect / INSERT / commit of log_decision fails
LogFaults == {"none", "get_logger", "insert"}

\* RoutingLogger.log_decision: one INSERT inside try / except Exception;
\* returns the rows of routing_decisions afterwards
logger_log_decision(rows, query, decision, timestamp, fault) ==
    IF fault = "insert" THEN rows
    ELSE Append(rows, log_row(query, decision, timestamp))

\* as log_decision, but a failure to construct the logger reaches the caller
log_decision_propagates(rows, query, decision, enabled, timestamp, fault) ==
    IF ~enabled THEN [exc |-> "none", logged |-> FALSE, rows |-> rows]
    ELSE IF fault = "get_logger"
         THEN [exc |-> "OperationalError", logged |-> FALSE, rows |-> rows]
         ELSE LET done(after) ==
                      [exc |-> "none", logged |-> Len(after) > Len(rows), rows |-> after]
              IN done(logger_log_decision(rows, query, decision, timestamp, fault))

\* SemanticRouter._log_decision: returns at once unless enabled; otherwise
\* get_logger().log_decision(query, decision) inside try / except Exception
log_decision(rows, query, decision, enabled, timestamp, fault) ==
    IF ~enabled THEN [exc |-> "none", logged |-> FALSE, rows |-> rows]
    ELSE IF fault = "get_logger"
         THEN [exc |-> "none", logged |-> FALSE, rows |-> rows]
         ELSE LET done(after) ==
                      [exc |-> "none", logged |-> Len(after) > Len(rows), rows |-> after]
              IN done(logger_log_decision(rows, query, decision, timestamp, fault))

(***************************************************************************)
(* State                                                                   *)
(***************************************************************************)
VARIABLES
    config_file,       \* CONFIG_FILE on disk: [status, overrides]
    matcher_instance,  \* rule_matcher._matcher_instance: [created, rules, initialized]
    router_instance,   \* semantic_router._router_instance: [created, initialized, collection]
    store,             \* ROUTING_DB_PATH: [exists, present, gen, examples, fault]
    log,               \* rows of routing_decisions, oldest first
    last,              \* the latest route() call since the environment last changed
    probe,             \* one application of a pure function: its input and result
    clock,             \* the wall clock, in ticks
    feedback,          \* rows of routing_feedback, oldest first
    ingest             \* position of each run of ingest_routing_examples.py

vars ==
    <<config_file, matcher_instance, router_instance, store, log, last, probe, clock,
      feedback, ingest>>

\* the runs of the ingest script that may rebuild the Example Index
Rebuilders == {1, 2}

\* no run of the ingest script has started; handle is the collection a run holds
NoIngest == [p \in Rebuilders |-> [pc |-> "idle", handle |-> 0]]

NoMatcher == [created |-> FALSE, rules |-> <<>>, initialized |-> FALSE]

NoRouter == [created |-> FALSE, initialized |-> FALSE, collection |-> 0]

\* last.tiers lists the tiers the call consulted, in order; last.logged tells
\* whether the call added a row to the log
NoCall == [called |-> FALSE, query |-> <<>>, log_decision |-> FALSE, write_failed |-> FALSE,
           exc |-> "none", result |-> NoDecision, tiers |-> <<>>, logged |-> FALSE]

NoProbe == [fn |-> "none", rule |-> EmptyDict, query |-> <<>>, done |-> FALSE,
            result |-> FALSE]

Init ==
    /\ probe = NoProbe
    /\ \E env \in Environments : config_file = env[1] /\ store = env[2]
    /\ matcher_instance = NoMatcher
    /\ router_instance = NoRouter
    /\ log = <<>>
    /\ last = NoCall
    /\ clock = 0
    /\ ingest = NoIngest
    /\ feedback = <<>>

\* SemanticRouter.__init__ with _initialize_chroma
new_router(db) ==
    IF ~db.exists THEN [created |-> TRUE, initialized |-> FALSE, collection |-> 0]
    ELSE IF db.fault \/ ~db.present
         THEN [created |-> TRUE, initialized |-> FALSE, collection |-> 0]
         ELSE [created |-> TRUE, initialized |-> TRUE, collection |-> db.gen]

\* get_router(): creates the singleton on first use
GetRouter ==
    /\ ~router_instance.created
    /\ router_instance' = new_router(store)
    /\ UNCHANGED <<config_file, matcher_instance, store, log, last, probe, clock, feedback,
            ingest>>

PatternsBounded(rules) ==
    \A i \in 1..Len(rules) :
        "patterns" \in DOMAIN rules[i] => Len(rules[i]["patterns"]) <= MaxPatterns

\* get_router().route(user_msg, log_decision), enabled being the value of
\* log_decision; ms is the measured latency and fault what goes wrong with the
\* Decision Log during the call; last.write_failed tells whether the call
\* attempted the log and met a fault
Route(user_msg) ==
    /\ router_instance.created
    /\ \E ms \in ExecTimes :
       \E r \in {route(router_instance, matcher_instance, config_file, store, user_msg, ms)} :
       \E enabled \in BOOLEAN, fault \in LogFaults :
       \E w \in {IF r.exc = "none"
                 THEN log_decision(log, user_msg, r.val, enabled, clock + 1, fault)
                 ELSE [exc |-> r.exc, logged |-> FALSE, rows |-> log]} :
          /\ PatternsBounded(r.matcher.rules)
          /\ Len(w.rows) <= MaxLog
          /\ matcher_instance' = r.matcher
          /\ log' = w.rows
          /\ clock' = IF w.logged THEN clock + 1 ELSE clock
          /\ last' = [called |-> TRUE, query |-> user_msg,
                      log_decision |-> enabled,
                      write_failed |-> enabled /\ fault # "none",
                      exc |-> w.exc,
                      result |-> r.val, tiers |-> r.tiers, logged |-> w.logged]
    /\ UNCHANGED <<config_file, router_instance, store, probe, feedback, ingest>>

\* reset_matcher()
ResetMatcher ==
    /\ matcher_instance.created
    /\ matcher_instance' = NoMatcher
    /\ last' = NoCall
    /\ UNCHANGED <<config_file, router_instance, store, log, probe, clock, feedback, ingest>>

\* reset_router()
ResetRouter ==
    /\ router_instance.created
    /\ router_instance' = NoRouter
    /\ last' = NoCall
    /\ UNCHANGED <<config_file, matcher_instance, store, log, probe, clock, feedback, ingest>>

\* the example store becomes unavailable (disk, timeout) or available again
SetFault ==
    /\ store.exists
    /\ store' = [store EXCEPT !.fault = ~store.fault]
    /\ last' = NoCall
    /\ UNCHANGED <<config_file, matcher_instance, router_instance, log, probe, clock, feedback,
            ingest>>

Next ==
    \/ GetRouter
    \/ \E q \in Queries : Route(q)
    \/ ResetMatcher
    \/ ResetRouter
    \/ SetFault

Spec == Init /\ [][Next]_vars

(***************************************************************************)
(* The router and its Decision Log over three deployments: rules that      *)
(* match, no rules with a populated store, no file with an empty store     *)
(***************************************************************************)
LogEnvironments ==
    {<<Cfg_priorities, Store_A>>, <<Cfg_none, Store_A>>, <<Cfg_absent, Store_empty>>}

InitLog ==
    /\ probe = NoProbe
    /\ \E env \in LogEnvironments : config_file = env[1] /\ store = env[2]
    /\ matcher_instance = NoMatcher
    /\ router_instance = NoRouter
    /\ log = <<>>
    /\ last = NoCall
    /\ clock = 0
    /\ ingest = NoIngest
    /\ feedback = <<>>

SpecLog == InitLog /\ [][Next]_vars

(***************************************************************************)
(* RoutingLogger: decisions logged one after another and the review query  *)
(* get_low_confidence_queries                                              *)
(***************************************************************************)
MaxRows == 3

\* the tuple SELECT query, confidence, method, reason, category, timestamp
review_tuple(row) ==
    <<row.query, row.confidence, row.method, row.reason, row.category, row.timestamp>>

\* ORDER BY confidence ASC, timestamp DESC over the rows at positions idx
RECURSIVE order_by_confidence(_, _)
order_by_confidence(rows, idx) ==
    IF idx = {} THEN <<>>
    ELSE LET first == CHOOSE i \in idx : \A j \in idx \ {i} :
                          \/ rows[i].confidence < rows[j].confidence
                          \/ /\ rows[i].confidence = rows[j].confidence
                             /\ rows[i].timestamp > rows[j].timestamp
         IN <<review_tuple(rows[first])>> \o order_by_confidence(rows, idx \ {first})

\* as get_low_confidence_queries, but with override decisions eligible too
get_low_confidence_queries_any_method(rows, threshold, limit, fault) ==
    IF fault THEN <<>>
    ELSE Take(order_by_confidence(rows,
                  {i \in 1..Len(rows) : rows[i].confidence < threshold}),
              limit)

\* RoutingLogger.get_low_confidence_queries: WHERE confidence < ? AND method
\* != 'override' ORDER BY confidence ASC, timestamp DESC LIMIT ?; any
\* exception gives []
get_low_confidence_queries(rows, threshold, limit, fault) ==
    IF fault THEN <<>>
    ELSE Take(order_by_confidence(rows,
                  {i \in 1..Len(rows) : /\ rows[i].confidence < threshold
                                        /\ rows[i].method # "override"}),
              limit)

\* (configuration, store, query) of the route() calls whose decisions get
\* logged: an override (1.0), a semantic 0.7, a fallback 0.3, the default
\* route of an empty store (semantic, 0.3) and a semantic 1.0
ReviewCalls ==
    {<<Cfg_priorities, Store_A, Q_cve_login>>, <<Cfg_none, Store_A, Q_cve_id>>,
     <<Cfg_none, Store_A, Q_empty>>, <<Cfg_absent, Store_empty, Q_zzqx>>,
     <<Cfg_none, Store_A, Q_playbooks>>}

\* thresholds 0.75 (the default) and 1.1, in units of 1 / One
ReviewThresholds == {150, 220}

ReviewLimits == {1, 2, 50}

InitReview ==
    /\ config_file = Cfg_none
    /\ store = Store_missing
    /\ matcher_instance = NoMatcher
    /\ router_instance = NoRouter
    /\ log = <<>>
    /\ last = NoCall
    /\ clock = 0
    /\ ingest = NoIngest
    /\ feedback = <<>>
    /\ probe = NoProbe

\* get_logger().log_decision(query, decision) with the decision route()
\* returns for the call c
LogDecision(c) ==
    /\ Len(log) < MaxRows
    /\ \E ms \in ExecTimes, fault \in {"none", "insert"} :
       \E d \in {route(new_router(c[2]), NoMatcher, c[1], c[2], c[3], ms).val} :
          /\ log' = logger_log_decision(log, c[3], d, clock + 1, fault)
          /\ clock' = IF fault = "none" THEN clock + 1 ELSE clock
    /\ probe' = NoProbe
    /\ UNCHANGED <<config_file, matcher_instance, router_instance, store, last, feedback,
                   ingest>>

\* get_logger().get_low_confidence_queries(threshold, limit)
LowConfidence(threshold, limit) ==
    /\ \E fault \in BOOLEAN :
          probe' = [fn |-> "get_low_confidence_queries", threshold |-> threshold,
                    limit |-> limit, fault |-> fault, done |-> TRUE,
                    result |-> get_low_confidence_queries(log, threshold, limit, fault)]
    /\ UNCHANGED <<config_file, matcher_instance, router_instance, store, log, last, clock,
                 feedback, ingest>>

NextReview ==
    \/ \E c \in ReviewCalls : LogDecision(c)
    \/ \E threshold \in ReviewThresholds, limit \in ReviewLimits :
          LowConfidence(threshold, limit)

SpecReview == InitReview /\ [][NextReview]_vars

(***************************************************************************)
(* _matches_keywords applied to one keyword rule and one query             *)
(***************************************************************************)
MaxKeywords == 2

KeywordPool ==
    {<<"l","o","g","i","n">>, <<"P","O","L","I","C","Y">>, <<"z","z">>, <<"C","v","e">>, <<>>}

KeywordLists == UNION {[1..n -> KeywordPool] : n \in 0..MaxKeywords}

\* require_all absent, true or false; the keyword list present or missing
KeywordRules ==
    {[type |-> TypeKeyword, keywords |-> ks] : ks \in KeywordLists}
       \cup {[type |-> TypeKeyword, keywords |-> ks, require_all |-> b] :
                ks \in KeywordLists, b \in BOOLEAN}
       \cup {[type |-> TypeKeyword]}
       \cup {[type |-> TypeKeyword, require_all |-> b] : b \in BOOLEAN}

InitKeywords ==
    /\ probe \in {[fn |-> "matches_keywords", rule |-> r, query |-> q, done |-> FALSE,
                   result |-> FALSE] : r \in KeywordRules, q \in Queries}
    /\ config_file = Cfg_none
    /\ store = Store_missing
    /\ matcher_instance = NoMatcher
    /\ router_instance = NoRouter
    /\ log = <<>>
    /\ last = NoCall
    /\ clock = 0
    /\ ingest = NoIngest
    /\ feedback = <<>>

ApplyKeywords ==
    /\ probe.fn = "matches_keywords"
    /\ ~probe.done
    /\ probe' = [probe EXCEPT !.done = TRUE,
                              !.result = matches_keywords(probe.query, probe.rule)]
    /\ UNCHANGED <<config_file, matcher_instance, router_instance, store, log, last, clock,
                 feedback, ingest>>

NextKeywords == ApplyKeywords

SpecKeywords == InitKeywords /\ [][NextKeywords]_vars

(***************************************************************************)
(* RuleMatcher loading applied to configuration files built from a pool of *)
(* entries                                                                 *)
(***************************************************************************)
MaxRules == 3

\* "- cve" where a rule mapping is expected
E_scalar == [scalar |-> <<"c","v","e">>]

EntryPool == {R_cve, R_cve_kw, R_tie, R_untyped, E_scalar}

LoadFiles ==
    {[status |-> "ok", overrides |-> rs] :
        rs \in UNION {[1..n -> EntryPool] : n \in 0..MaxRules}}

InitLoad ==
    /\ config_file \in LoadFiles
    /\ matcher_instance = NoMatcher
    /\ store = Store_missing
    /\ router_instance = NoRouter
    /\ log = <<>>
    /\ last = NoCall
    /\ clock = 0
    /\ ingest = NoIngest
    /\ feedback = <<>>
    /\ probe = NoProbe

\* get_matcher(): constructs the RuleMatcher on first use
GetMatcher ==
    /\ ~matcher_instance.created
    /\ matcher_instance' = get_matcher(matcher_instance, config_file)
    /\ UNCHANGED <<config_file, router_instance, store, log, last, probe, clock, feedback,
                   ingest>>

NextLoad == GetMatcher \/ ResetMatcher

SpecLoad == InitLoad /\ [][NextLoad]_vars

(***************************************************************************)
(* routing_feedback.py: the Feedback Store                                 *)
(***************************************************************************)
\* a nullable value: SQL NULL / Python None is <<>>, the value v is <<v>>
SqlNull == <<>>

Some(v) == <<v>>

\* a Python dict with its keys in insertion order: [keys, val]
Dict(keys, val) == [keys |-> keys, val |-> val]

\* json.dumps(d): the members of d in insertion order, as the list of its
\* key : value tokens
json_dumps(d) == [i \in 1..Len(d.keys) |-> <<d.keys[i], d.val[d.keys[i]]>>]

\* json.loads(text): the dict of the members, a repeated key keeping its
\* last value
json_loads(text) ==
    LET ks == {text[i][1] : i \in 1..Len(text)}
        lastOf(k) == CHOOSE i \in 1..Len(text) :
                        text[i][1] = k /\ \A j \in (i + 1)..Len(text) : text[j][1] # k
        firstOf(k) == CHOOSE i \in 1..Len(text) :
                        text[i][1] = k /\ \A j \in 1..(i - 1) : text[j][1] # k
        positions == {firstOf(k) : k \in ks}
        nth(n) == CHOOSE i \in positions : Cardinality({j \in positions : j < i}) = n - 1
    IN Dict([n \in 1..Cardinality(ks) |-> text[nth(n)][1]],
            [k \in ks |-> text[lastOf(k)][2]])

\* dict.get(key, False) on a route
Flag(d, key) == IF key \in DOMAIN d.val THEN d.val[key] ELSE FALSE

\* the row record_feedback inserts; processed takes its column default 0
feedback_row(id, args, now) ==
    [id               |-> id,
     query            |-> args.query,
     actual_route     |-> json_dumps(args.actual_route),
     expected_route   |-> IF args.expected_route # SqlNull
                             /\ Len(args.expected_route[1].keys) > 0
                          THEN Some(json_dumps(args.expected_route[1]))
                          ELSE SqlNull,
     feedback_type    |-> args.feedback_type,
     confidence_score |-> args.confidence_score,
     user_comment     |-> args.user_comment,
     timestamp        |-> now,
     processed        |-> 0]

\* RoutingFeedback.record_feedback: INSERT and commit inside try / finally
\* with no except clause; returns cursor.lastrowid
record_feedback(rows, args, now, fault) ==
    IF fault THEN [exc |-> "OperationalError", val |-> SqlNull, rows |-> rows]
    ELSE [exc |-> "none", val |-> Some(Len(rows) + 1),
          rows |-> Append(rows, feedback_row(Len(rows) + 1, args, now))]

\* as mark_as_processed, but the flag is toggled
mark_as_processed_toggle(rows, query, fault) ==
    IF fault THEN [exc |-> "OperationalError", rows |-> rows]
    ELSE [exc |-> "none",
          rows |-> [i \in 1..Len(rows) |->
                       IF rows[i].query = query
                       THEN [rows[i] EXCEPT !.processed = 1 - rows[i].processed]
                       ELSE rows[i]]]

\* RoutingFeedback.mark_as_processed: UPDATE ... SET processed = 1 WHERE query = ?
mark_as_processed(rows, query, fault) ==
    IF fault THEN [exc |-> "OperationalError", rows |-> rows]
    ELSE [exc |-> "none",
          rows |-> [i \in 1..Len(rows) |->
                       IF rows[i].query = query THEN [rows[i] EXCEPT !.processed = 1]
                       ELSE rows[i]]]

\* occurrences at which a pattern gets priority high
HighPriorityOccurrences == 5

\* the rows the pattern query selects: WHERE feedback_type = 'incorrect' AND
\* timestamp >= since AND expected_route IS NOT NULL AND processed = 0
Selected(rows, since) ==
    {i \in 1..Len(rows) : /\ rows[i].feedback_type = "incorrect"
                          /\ rows[i].timestamp >= since
                          /\ rows[i].expected_route # SqlNull
                          /\ rows[i].processed = 0}

\* GROUP BY query, actual_route, expected_route: the key of row i
GroupKey(rows, i) == <<rows[i].query, rows[i].actual_route, rows[i].expected_route[1]>>

RECURSIVE SumOf(_, _, _)
SumOf(rows, idx, column) ==
    IF idx = {} THEN 0
    ELSE LET i == CHOOSE j \in idx : TRUE
         IN rows[i][column][1] + SumOf(rows, idx \ {i}, column)

\* GROUP_CONCAT(user_comment, ' | ') over the rows idx, in rowid order
RECURSIVE GroupConcat(_, _)
GroupConcat(rows, idx) ==
    IF idx = {} THEN <<>>
    ELSE LET i == CHOOSE j \in idx : \A k \in idx : j <= k
             rest == GroupConcat(rows, idx \ {i})
         IN IF rest = <<>> THEN rows[i].user_comment[1]
            ELSE rows[i].user_comment[1] \o <<" ", "|", " ">> \o rest

\* as pattern_of, but priority high starts above the limit
pattern_of_strict(rows, members) ==
    LET first == CHOOSE i \in members : TRUE
        scored == {i \in members : rows[i].confidence_score # SqlNull}
        commented == {i \in members : rows[i].user_comment # SqlNull}
    IN [query            |-> rows[first].query,
        actual_route     |-> json_loads(rows[first].actual_route),
        expected_route   |-> json_loads(rows[first].expected_route[1]),
        occurrences      |-> Cardinality(members),
        avg_confidence   |-> IF scored = {} THEN SqlNull
                             ELSE Some([sum |-> SumOf(rows, scored, "confidence_score"),
                                        count |-> Cardinality(scored)]),
        user_comments    |-> IF commented = {} THEN SqlNull
                             ELSE Some(GroupConcat(rows, commented)),
        suggested_action |-> "add_to_training",
        priority         |-> IF Cardinality(members) > HighPriorityOccurrences
                             THEN "high" ELSE "medium"]

\* the pattern dict built from one group of rows; avg_confidence is kept as
\* the exact fraction sum / count
pattern_of(rows, members) ==
    LET first == CHOOSE i \in members : TRUE
        scored == {i \in members : rows[i].confidence_score # SqlNull}
        commented == {i \in members : rows[i].user_comment # SqlNull}
    IN [query            |-> rows[first].query,
        actual_route     |-> json_loads(rows[first].actual_route),
        expected_route   |-> json_loads(rows[first].expected_route[1]),
        occurrences      |-> Cardinality(members),
        avg_confidence   |-> IF scored = {} THEN SqlNull
                             ELSE Some([sum |-> SumOf(rows, scored, "confidence_score"),
                                        count |-> Cardinality(scored)]),
        user_comments    |-> IF commented = {} THEN SqlNull
                             ELSE Some(GroupConcat(rows, commented)),
        suggested_action |-> "add_to_training",
        priority         |-> IF Cardinality(members) >= HighPriorityOccurrences
                             THEN "high" ELSE "medium"]

\* RoutingFeedback.analyze_feedback_patterns: the possible outcomes.  The
\* query runs inside try / finally with no except clause.  GROUP BY ... HAVING
\* occurrences >= ? ORDER BY occurrences DESC leaves the order of groups of equal
\* size open, so every such order is an outcome.
analyze_feedback_patterns(rows, now, days, min_occurrences, fault) ==
    IF fault THEN {[exc |-> "OperationalError", val |-> <<>>]}
    ELSE LET sel == Selected(rows, now - days)
             keys == {GroupKey(rows, i) : i \in sel}
             members(k) == {i \in sel : GroupKey(rows, i) = k}
             having == {k \in keys : Cardinality(members(k)) >= min_occurrences}
             n == Cardinality(having)
         IN {[exc |-> "none", val |-> [p \in 1..n |-> pattern_of(rows, members(order[p]))]] :
                order \in {o \in [1..n -> having] :
                              /\ \A a \in 1..n, b \in 1..n : a # b => o[a] # o[b]
                              /\ \A a \in 1..n, b \in 1..n :
                                    a < b => Cardinality(members(o[a]))
                                                >= Cardinality(members(o[b]))}}

\* RoutingFeedback.get_feedback_stats: counts by feedback_type in the window,
\* accuracy in hundredths of a percent, unprocessed incorrect queries; the
\* queries run inside try / finally with no except clause
get_feedback_stats(rows, now, days, fault) ==
    IF fault THEN [exc |-> "OperationalError", val |-> EmptyDict]
    ELSE LET inWindow == {i \in 1..Len(rows) : rows[i].timestamp >= now - days}
             types == {rows[i].feedback_type : i \in inWindow}
             counts == [t \in types |->
                           Cardinality({i \in inWindow : rows[i].feedback_type = t})]
             total == Cardinality(inWindow)
             correct == IF "correct" \in types THEN counts["correct"] ELSE 0
             unprocessed == Cardinality({rows[i].query : i \in
                                {j \in inWindow : /\ rows[j].feedback_type = "incorrect"
                                                  /\ rows[j].processed = 0}})
         IN [exc |-> "none",
             val |-> [period_days           |-> days,
                      total_feedback        |-> total,
                      feedback_breakdown    |-> counts,
                      accuracy_rate         |-> IF total > 0
                                                THEN (2 * 10000 * correct + total)
                                                        \div (2 * total)
                                                ELSE 0,
                      unprocessed_patterns  |-> unprocessed,
                      can_generate_examples |-> unprocessed > 0]]

\* the category chosen from the expected route
category_of(expected) ==
    IF Flag(expected, "use_web_search") THEN "threat_intelligence"
    ELSE IF Flag(expected, "use_logs") THEN "authentication_logs"
    ELSE IF Flag(expected, "use_rag") THEN "policy_guidance"
    ELSE "unknown"

\* as training_example, but only patterns of priority high are approved
training_example_by_priority(pattern, auto_approve_threshold) ==
    [query          |-> pattern.query,
     category       |-> category_of(pattern.expected_route),
     use_rag        |-> Flag(pattern.expected_route, "use_rag"),
     use_logs       |-> Flag(pattern.expected_route, "use_logs"),
     use_web_search |-> Flag(pattern.expected_route, "use_web_search"),
     source         |-> "user_feedback",
     occurrences    |-> pattern.occurrences,
     auto_approved  |-> /\ pattern.occurrences >= auto_approve_threshold
                        /\ Get(pattern, "priority", "medium") = "high",
     priority       |-> Get(pattern, "priority", "medium"),
     user_comments  |-> Get(pattern, "user_comments", Some(<<>>))]

\* generate_training_examples: the example built from one pattern
training_example(pattern, auto_approve_threshold) ==
    [query          |-> pattern.query,
     category       |-> category_of(pattern.expected_route),
     use_rag        |-> Flag(pattern.expected_route, "use_rag"),
     use_logs       |-> Flag(pattern.expected_route, "use_logs"),
     use_web_search |-> Flag(pattern.expected_route, "use_web_search"),
     source         |-> "user_feedback",
     occurrences    |-> pattern.occurrences,
     auto_approved  |-> pattern.occurrences >= auto_approve_threshold,
     priority       |-> Get(pattern, "priority", "medium"),
     user_comments  |-> Get(pattern, "user_comments", Some(<<>>))]

\* analyze_feedback_patterns(days: int = 30, min_occurrences: int = 3)
DefaultDays == 30

DefaultMinOccurrences == 3

\* RoutingFeedback.generate_training_examples: the possible outcomes.
\* patterns is None (<<>>) or a list (<<list>>); with None the patterns come
\* from analyze_feedback_patterns() with its defaults
generate_training_examples(rows, now, patterns, auto_approve_threshold, fault) ==
    LET given == IF patterns = SqlNull
                 THEN analyze_feedback_patterns(rows, now, DefaultDays,
                                                DefaultMinOccurrences, fault)
                 ELSE {[exc |-> "none", val |-> patterns[1]]}
        examples(g) ==
            IF g.exc # "none" THEN g
            ELSE [exc |-> "none",
                  val |-> [i \in 1..Len(g.val) |->
                              training_example(g.val[i], auto_approve_threshold)]]
    IN {examples(g) : g \in given}

(***************************************************************************)
(* Feedback Store: inputs and operations                                   *)
(***************************************************************************)
MaxFeedback == 2

MaxTick == 1

RouteKeys == <<"use_rag", "use_logs", "use_web_search">>

RouteDict(keys, rag, logs, web) ==
    Dict(keys, [use_rag |-> rag, use_logs |-> logs, use_web_search |-> web])

A_rag == RouteDict(RouteKeys, TRUE, FALSE, FALSE)

E_logs == RouteDict(RouteKeys, FALSE, TRUE, FALSE)

\* the same route as E_logs, its keys written in another order
E_logs_reordered == RouteDict(<<"use_logs", "use_rag", "use_web_search">>, FALSE, TRUE, FALSE)

E_web == RouteDict(RouteKeys, FALSE, FALSE, TRUE)

FeedbackArgs(query, feedback_type, expected_route, confidence_score, user_comment) ==
    [query |-> query, actual_route |-> A_rag, feedback_type |-> feedback_type,
     expected_route |-> expected_route, confidence_score |-> confidence_score,
     user_comment |-> user_comment]

G_logs == FeedbackArgs(Q_cve_login, "incorrect", Some(E_logs), Some(130), Some(<<"l">>))

G_logs_reordered ==
    FeedbackArgs(Q_cve_login, "incorrect", Some(E_logs_reordered), Some(120), SqlNull)

G_correct == FeedbackArgs(Q_cve_login, "correct", Some(E_logs), Some(170), SqlNull)

G_no_expected == FeedbackArgs(Q_zzqx, "incorrect", SqlNull, SqlNull, SqlNull)

G_web == FeedbackArgs(Q_zzqx, "incorrect", Some(E_web), SqlNull, Some(<<"w">>))

FeedbackInputs == {G_logs, G_logs_reordered, G_correct, G_no_expected, G_web}

FeedbackQueries == {Q_cve_login, Q_zzqx}

AnalyzeDays == {0, DefaultDays}

AnalyzeMinimums == {1, 2}

Called(fn, args, exc, result) ==
    [fn |-> fn, args |-> args, exc |-> exc, result |-> result, done |-> TRUE]

InitFeedback ==
    /\ config_file = Cfg_none
    /\ store = Store_missing
    /\ matcher_instance = NoMatcher
    /\ router_instance = NoRouter
    /\ log = <<>>
    /\ last = NoCall
    /\ clock = 0
    /\ ingest = NoIngest
    /\ feedback = <<>>
    /\ probe = NoProbe

\* get_feedback_manager().record_feedback with the keyword arguments args
Record(args) ==
    /\ Len(feedback) < MaxFeedback
    /\ \E fault \in BOOLEAN :
       \E r \in {record_feedback(feedback, args, clock, fault)} :
          /\ feedback' = r.rows
          /\ probe' = Called("record_feedback", args.query, r.exc, r.val)
    /\ UNCHANGED <<config_file, matcher_instance, router_instance, store, log, last, clock,
            ingest>>

\* get_feedback_manager().mark_as_processed(query)
MarkProcessed(query) ==
    /\ \E fault \in BOOLEAN :
       \E r \in {mark_as_processed(feedback, query, fault)} :
          /\ feedback' = r.rows
          /\ probe' = Called("mark_as_processed", query, r.exc, SqlNull)
    /\ UNCHANGED <<config_file, matcher_instance, router_instance, store, log, last, clock,
            ingest>>

\* get_feedback_manager().analyze_feedback_patterns(days, min_occurrences)
Analyze(days, min_occurrences) ==
    /\ \E fault \in BOOLEAN :
       \E r \in analyze_feedback_patterns(feedback, clock, days, min_occurrences, fault) :
          probe' = Called("analyze_feedback_patterns",
                          [days |-> days, min_occurrences |-> min_occurrences],
                          r.exc, r.val)
    /\ UNCHANGED <<config_file, matcher_instance, router_instance, store, log, last, clock,
                   feedback, ingest>>

\* get_feedback_manager().get_feedback_stats(days)
Stats(days) ==
    /\ \E fault \in BOOLEAN :
       \E r \in {get_feedback_stats(feedback, clock, days, fault)} :
          probe' = Called("get_feedback_stats", [days |-> days], r.exc, r.val)
    /\ UNCHANGED <<config_file, matcher_instance, router_instance, store, log, last, clock,
                   feedback, ingest>>

\* a day passes
Tick ==
    /\ clock < MaxTick
    /\ clock' = clock + 1
    /\ probe' = NoProbe
    /\ UNCHANGED <<config_file, matcher_instance, router_instance, store, log, last,
                   feedback, ingest>>

NextFeedback ==
    \/ \E args \in FeedbackInputs : Record(args)
    \/ \E query \in FeedbackQueries : MarkProcessed(query)
    \/ \E days \in AnalyzeDays, min_occurrences \in AnalyzeMinimums :
          Analyze(days, min_occurrences)
    \/ \E days \in AnalyzeDays : Stats(days)
    \/ Tick

SpecFeedback == InitFeedback /\ [][NextFeedback]_vars

(***************************************************************************)
(* Grouping of records whose routes are written in several ways            *)
(***************************************************************************)
\* incorrect feedback whose expected route is supplied as the empty mapping
G_empty ==
    FeedbackArgs(Q_playbooks, "incorrect", Some(Dict(<<>>, EmptyDict)), SqlNull, SqlNull)

GroupingInputs == {G_logs, G_logs_reordered, G_empty}

NextGrouping ==
    \/ \E args \in GroupingInputs : Record(args)
    \/ \E min_occurrences \in AnalyzeMinimums : Analyze(DefaultDays, min_occurrences)
    \/ Tick

SpecGrouping == InitFeedback /\ [][NextGrouping]_vars

(***************************************************************************)
(* analyze_feedback_patterns applied to stores holding up to               *)
(* MaxOccurrences records of each of three kinds                           *)
(***************************************************************************)
MaxOccurrences == 6

\* the store after recording the feedback of calls, one after another
RECURSIVE Recorded(_)
Recorded(calls) ==
    IF Len(calls) = 0 THEN <<>>
    ELSE record_feedback(Recorded(SubSeq(calls, 1, Len(calls) - 1)),
                         calls[Len(calls)], 0, FALSE).rows

Repeat(args, n) == [i \in 1..n |-> args]

BulkStores ==
    {Recorded(Repeat(G_logs, a) \o Repeat(G_web, b) \o Repeat(G_logs_reordered, c)) :
        a \in 0..MaxOccurrences, b \in 0..MaxOccurrences, c \in 0..MaxOccurrences}

InitPatterns ==
    /\ config_file = Cfg_none
    /\ store = Store_missing
    /\ matcher_instance = NoMatcher
    /\ router_instance = NoRouter
    /\ log = <<>>
    /\ last = NoCall
    /\ clock = 0
    /\ ingest = NoIngest
    /\ feedback \in BulkStores
    /\ probe = NoProbe

NextPatterns ==
    \E days \in AnalyzeDays, min_occurrences \in AnalyzeMinimums :
        Analyze(days, min_occurrences)

SpecPatterns == InitPatterns /\ [][NextPatterns]_vars

(***************************************************************************)
(* generate_training_examples applied to lists of patterns                 *)
(***************************************************************************)
MaxCandidates == 2

\* every combination of the three flags, and a route naming one flag only
ExpectedRoutes ==
    {RouteDict(RouteKeys, rag, logs, web) :
        rag \in BOOLEAN, logs \in BOOLEAN, web \in BOOLEAN}
       \cup {Dict(<<"use_logs">>, [use_logs |-> TRUE])}

\* patterns as a caller may pass them: the priority is the caller's own
PatternPool ==
    {[query |-> Q_zzqx, actual_route |-> A_rag, expected_route |-> e, occurrences |-> n,
      priority |-> IF Flag(e, "use_rag") THEN "high" ELSE "medium"] :
        e \in ExpectedRoutes, n \in {2, 5}}

PatternLists == UNION {[1..n -> PatternPool] : n \in 0..MaxCandidates}

\* auto_approve_threshold: 3 and the default 5
TrainingThresholds == {3, 5}

\* the calls applied: patterns=None or a list, with a threshold
TrainingCalls ==
    {[patterns |-> ps, auto_approve_threshold |-> t] :
        ps \in {SqlNull} \cup {Some(l) : l \in PatternLists}, t \in TrainingThresholds}

InitTraining ==
    /\ config_file = Cfg_none
    /\ store = Store_missing
    /\ matcher_instance = NoMatcher
    /\ router_instance = NoRouter
    /\ log = <<>>
    /\ last = NoCall
    /\ clock = 0
    /\ ingest = NoIngest
    /\ feedback \in {<<>>, Recorded(Repeat(G_logs, DefaultMinOccurrences))}
    /\ probe \in {[fn |-> "generate_training_examples", args |-> c, exc |-> "none",
                    result |-> <<>>, done |-> FALSE] : c \in TrainingCalls}

\* get_feedback_manager().generate_training_examples(patterns, auto_approve_threshold)
Generate ==
    /\ probe.fn = "generate_training_examples"
    /\ ~probe.done
    /\ \E fault \in BOOLEAN :
       \E r \in generate_training_examples(feedback, clock, probe.args.patterns,
                                           probe.args.auto_approve_threshold, fault) :
          probe' = Called("generate_training_examples", probe.args, r.exc, r.val)
    /\ UNCHANGED <<config_file, matcher_instance, router_instance, store, log, last, clock,
                   feedback, ingest>>

NextTraining == Generate

SpecTraining == InitTraining /\ [][NextTraining]_vars

(***************************************************************************)
(* export_training_examples applied to stores of recorded feedback         *)
(***************************************************************************)
\* generate_training_examples(patterns, auto_approve_threshold: int = 5)
DefaultAutoApprove == 5

\* the examples kept for the file: all, or the auto-approved ones only
kept_examples(examples, auto_approve_only) ==
    IF auto_approve_only THEN SelectSeq(examples, LAMBDA ex : ex.auto_approved)
    ELSE examples

\* RoutingFeedback.export_training_examples: the possible outcomes.  The
\* patterns of analyze_feedback_patterns() with its defaults become examples,
\* the kept ones are written to the output file and counted; the feedback
\* table is only read
export_training_examples(rows, now, auto_approve_only, fault) ==
    LET exported(g) ==
            IF g.exc # "none"
            THEN [exc |-> g.exc, val |-> 0, file |-> SqlNull, rows |-> rows]
            ELSE LET kept == kept_examples(g.val, auto_approve_only)
                 IN [exc |-> "none", val |-> Len(kept), file |-> Some(kept),
                     rows |-> rows]
    IN {exported(g) :
          g \in generate_training_examples(rows, now, SqlNull, DefaultAutoApprove, fault)}

\* stores holding up to MaxOccurrences records of each of two kinds
ExportStores ==
    {Recorded(Repeat(G_logs, a) \o Repeat(G_web, b)) :
        a \in 0..MaxOccurrences, b \in 0..MaxOccurrences}

InitExport ==
    /\ config_file = Cfg_none
    /\ store = Store_missing
    /\ matcher_instance = NoMatcher
    /\ router_instance = NoRouter
    /\ log = <<>>
    /\ last = NoCall
    /\ clock = 0
    /\ ingest = NoIngest
    /\ feedback \in ExportStores
    /\ probe = NoProbe

\* as Export, but a written file of candidates is ingested at once: the
\* Example Index is rebuilt with the examples of ExamplesB
Export_retraining(auto_approve_only) ==
    /\ \E fault \in BOOLEAN :
       \E r \in export_training_examples(feedback, clock, auto_approve_only, fault) :
          /\ feedback' = r.rows
          /\ probe' = Called("export_training_examples",
                             [auto_approve_only |-> auto_approve_only],
                             r.exc, [count |-> r.val, file |-> r.file])
          /\ store' = IF r.exc = "none" /\ r.val > 0 /\ store.exists
                      THEN [store EXCEPT !.examples = ExamplesB]
                      ELSE store
    /\ UNCHANGED <<config_file, matcher_instance, router_instance, log, last, clock, ingest>>

\* get_feedback_manager().export_training_examples(auto_approve_only=...)
Export(auto_approve_only) ==
    /\ \E fault \in BOOLEAN :
       \E r \in export_training_examples(feedback, clock, auto_approve_only, fault) :
          /\ feedback' = r.rows
          /\ probe' = Called("export_training_examples",
                             [auto_approve_only |-> auto_approve_only],
                             r.exc, [count |-> r.val, file |-> r.file])
    /\ UNCHANGED <<config_file, matcher_instance, router_instance, store, log, last, clock,
            ingest>>

NextExport ==
    \/ \E auto_approve_only \in BOOLEAN : Export(auto_approve_only)
    \/ Analyze(DefaultDays, DefaultMinOccurrences)
    \/ \E query \in FeedbackQueries : MarkProcessed(query)

SpecExport == InitExport /\ [][NextExport]_vars

(***************************************************************************)
(* Routing interleaved with the Feedback Store and the Decision Log        *)
(***************************************************************************)
InitLearning ==
    /\ probe = NoProbe
    /\ \E env \in LogEnvironments : config_file = env[1] /\ store = env[2]
    /\ matcher_instance = NoMatcher
    /\ router_instance = NoRouter
    /\ log = <<>>
    /\ last = NoCall
    /\ clock = 0
    /\ ingest = NoIngest
    /\ feedback \in {<<>>, Recorded(Repeat(G_logs, DefaultMinOccurrences))}

\* get_feedback_manager().generate_training_examples() with patterns=None
GenerateAnalyzed(auto_approve_threshold) ==
    /\ \E fault \in BOOLEAN :
       \E r \in generate_training_examples(feedback, clock, SqlNull,
                                           auto_approve_threshold, fault) :
          probe' = Called("generate_training_examples",
                          [patterns |-> SqlNull,
                           auto_approve_threshold |-> auto_approve_threshold],
                          r.exc, r.val)
    /\ UNCHANGED <<config_file, matcher_instance, router_instance, store, log, last, clock,
                   feedback, ingest>>

\* the queries routed between the feedback operations
LearningQueries == {Q_cve_login, Q_zzqx}

NextLearning ==
    \/ GetRouter
    \/ \E q \in LearningQueries : Route(q)
    \/ Record(G_logs)
    \/ MarkProcessed(Q_cve_login)
    \/ Analyze(DefaultDays, DefaultMinOccurrences)
    \/ GenerateAnalyzed(DefaultAutoApprove)
    \/ \E auto_approve_only \in BOOLEAN : Export(auto_approve_only)

SpecLearning == InitLearning /\ [][NextLearning]_vars

(***************************************************************************)
(* scripts/ingest_routing_examples.py: create_routing_collection rebuilding *)
(* the Example Index while the router serves queries                       *)
(***************************************************************************)
\* client.delete_collection("routing_examples") inside try / bare except
delete_collection(db) ==
    IF db.present THEN [db EXCEPT !.present = FALSE, !.examples = <<>>] ELSE db

\* client.create_collection(name="routing_examples"): a new, empty collection
\* with an identity of its own; raises when the name is taken
create_collection(db) ==
    IF db.present THEN [exc |-> "Exception", db |-> db]
    ELSE [exc |-> "none",
          db |-> [db EXCEPT !.present = TRUE, !.gen = db.gen + 1, !.examples = <<>>]]

\* collection.add(ids, documents, metadatas) through the handle the run holds
collection_add(handle, db, examples) ==
    IF ~db.present \/ db.gen # handle THEN [exc |-> "Exception", db |-> db]
    ELSE [exc |-> "none", db |-> [db EXCEPT !.examples = db.examples \o examples]]

InitRebuild ==
    /\ probe = NoProbe
    /\ config_file = Cfg_none
    /\ store = Store_A
    /\ matcher_instance = NoMatcher
    /\ router_instance = NoRouter
    /\ log = <<>>
    /\ last = NoCall
    /\ clock = 0
    /\ ingest = NoIngest
    /\ feedback = <<>>

\* run p enters create_routing_collection: mkdir and PersistentClient
OpenClient(p) ==
    /\ ingest[p].pc = "idle"
    /\ store' = [store EXCEPT !.exists = TRUE]
    /\ ingest' = [ingest EXCEPT ![p].pc = "opened"]
    /\ last' = NoCall
    /\ UNCHANGED <<config_file, matcher_instance, router_instance, log, probe, clock,
                   feedback>>

\* run p deletes the existing collection
DeleteCollection(p) ==
    /\ ingest[p].pc = "opened"
    /\ store' = delete_collection(store)
    /\ ingest' = [ingest EXCEPT ![p].pc = "deleted"]
    /\ last' = NoCall
    /\ UNCHANGED <<config_file, matcher_instance, router_instance, log, probe, clock,
                   feedback>>

\* run p creates the new collection; an exception ends the run
CreateCollection(p) ==
    /\ ingest[p].pc = "deleted"
    /\ \E r \in {create_collection(store)} :
          /\ store' = r.db
          /\ ingest' = [ingest EXCEPT ![p] = IF r.exc = "none"
                                              THEN [pc |-> "created", handle |-> r.db.gen]
                                              ELSE [pc |-> "failed", handle |-> 0]]
    /\ last' = NoCall
    /\ UNCHANGED <<config_file, matcher_instance, router_instance, log, probe, clock,
                   feedback>>

\* run p adds its examples to the collection it created
AddExamples(p) ==
    /\ ingest[p].pc = "created"
    /\ \E r \in {collection_add(ingest[p].handle, store, ExamplesB)} :
          /\ store' = r.db
          /\ ingest' = [ingest EXCEPT ![p].pc = IF r.exc = "none" THEN "done" ELSE "failed"]
    /\ last' = NoCall
    /\ UNCHANGED <<config_file, matcher_instance, router_instance, log, probe, clock,
                   feedback>>

\* the queries routed while the index is rebuilt
RebuildQueries == {Q_cve_login, Q_zzqx, Q_playbooks}

NextRebuild ==
    \/ GetRouter
    \/ \E q \in RebuildQueries : Route(q)
    \/ ResetRouter
    \/ \E p \in Rebuilders :
          OpenClient(p) \/ DeleteCollection(p) \/ CreateCollection(p) \/ AddExamples(p)

SpecRebuild == InitRebuild /\ [][NextRebuild]_vars

(***************************************************************************)
(* _semantic_search applied to an index that reports a given distance      *)
(***************************************************************************)
\* distances the index may report, in hundredths: inside [0, 2], on its ends,
\* and outside on both sides
Distances == {-40, -1, 0, 1, 49, 50, 51, 79, 80, 81, 199, 200, 201, 400}

\* an index whose only example lies at top_distance from every query
StoreAt(top_distance) ==
    [Store_A EXCEPT !.examples =
        <<[document |-> D_misc, dist |-> [q \in Queries |-> top_distance],
           metadata |-> Meta("unknown", TRUE, FALSE, FALSE, "manual_seed")]>>]

InitDistance ==
    /\ probe = NoProbe
    /\ config_file = Cfg_none
    /\ store \in {StoreAt(top_distance) : top_distance \in Distances}
    /\ matcher_instance = NoMatcher
    /\ router_instance = NoRouter
    /\ log = <<>>
    /\ last = NoCall
    /\ clock = 0
    /\ ingest = NoIngest
    /\ feedback = <<>>

NextDistance ==
    \/ GetRouter
    \/ \E q \in {Q_zzqx, Q_cve_login} : Route(q)

SpecDistance == InitDistance /\ [][NextDistance]_vars

(***************************************************************************)
(* app/agent/agent.py: decide_tools, and the cases of                      *)
(* test_web_search_routing.py                                              *)
(***************************************************************************)
\* the signal lists of the fallback heuristic
logs_signal_words ==
    << <<"l","o","g","i","n">>,
       <<"l","o","g","o","u","t">>,
       <<"a","u","t","h">>,
       <<"a","t","t","e","m","p","t">>,
       <<"t","o","d","a","y">>,
       <<"y","e","s","t","e","r","d","a","y">>,
       <<"t","h","i","s"," ","w","e","e","k">>,
       <<"l","a","s","t"," ","w","e","e","k">>,
       <<"t","h","i","s"," ","m","o","n","t","h">>,
       <<"p","a","s","t"," ">>,
       <<"l","a","s","t"," ">>,
       <<"r","e","c","e","n","t">>,
       <<"s","h","o","w"," ","l","o","g","s">>,
       <<"q","u","e","r","y"," ","l","o","g","s">>,
       <<"c","h","e","c","k"," ","l","o","g","s">>,
       <<"h","o","w"," ","m","a","n","y">>,
       <<"c","o","u","n","t">>,
       <<"n","u","m","b","e","r"," ","o","f">> >>

policy_signal_words ==
    << <<"p","o","l","i","c","y">>,
       <<"p","l","a","y","b","o","o","k">>,
       <<"p","r","o","c","e","d","u","r","e">>,
       <<"p","r","o","c","e","s","s">>,
       <<"s","h","o","u","l","d"," ","i">>,
       <<"w","h","a","t"," ","s","h","o","u","l","d">>,
       <<"h","o","w"," ","d","o"," ","i">>,
       <<"h","o","w"," ","t","o"," ","h","a","n","d","l","e">>,
       <<"h","o","w"," ","t","o"," ","r","e","s","p","o","n","d">>,
       <<"h","o","w"," ","t","o"," ","e","s","c","a","l","a","t","e">>,
       <<"w","h","a","t"," ","t","o"," ","d","o">>,
       <<"s","t","e","p","s"," ","f","o","r">>,
       <<"g","u","i","d","a","n","c","e">> >>

\* the fallback heuristic of decide_tools on t = user_msg.lower()
heuristic(t) ==
    LET logs_signals   == AnyWordIn(logs_signal_words, t)
        policy_signals == AnyWordIn(policy_signal_words, t)
    IN IF logs_signals /\ ~policy_signals
       THEN [use_rag |-> FALSE, use_logs |-> TRUE, reason |-> "heuristic:logs-only"]
       ELSE IF logs_signals /\ policy_signals
       THEN [use_rag |-> TRUE, use_logs |-> TRUE, reason |-> "heuristic:logs+rag"]
       ELSE [use_rag |-> TRUE, use_logs |-> FALSE, reason |-> "heuristic:rag-only"]

\* what the LLM client does with the request: there is no client ("none"),
\* the call or json.loads raises ("error"), or the reply parses to data
LlmOutcomes ==
    {[kind |-> "none", data |-> EmptyDict], [kind |-> "error", data |-> EmptyDict],
     [kind |-> "json", data |-> EmptyDict]}
       \cup {[kind |-> "json", data |-> [use_rag |-> rag, use_logs |-> logs]] :
                rag \in BOOLEAN, logs \in BOOLEAN}

\* decide_tools(user_msg): the parsed reply of the LLM when there is one, the
\* heuristic otherwise; the returned dict has the keys use_rag, use_logs, reason
decide_tools(user_msg, llm) ==
    IF llm.kind = "json"
    THEN [use_rag  |-> Get(llm.data, "use_rag", FALSE),
          use_logs |-> Get(llm.data, "use_logs", FALSE),
          reason   |-> "llm"]
    ELSE heuristic(Lower(user_msg))

\* result.get(key) of the test: None when the key is absent
dict_get(d, key) == IF key \in DOMAIN d THEN Some(d[key]) ELSE SqlNull

\* test_cases of test_routing
test_cases ==
    << [query |-> <<"w","h","a","t"," ","v","u","l","n","e","r","a","b","i","l","i","t","y"," ","w","a","s"," ","r","e","p","o","r","t","e","d"," ","t","h","i","s"," ","m","o","n","t","h"," ","o","n"," ","T","C","P">>,
        should_use |-> [use_rag |-> FALSE, use_logs |-> FALSE, use_web_search |-> TRUE]],
       [query |-> <<"a","n","y"," ","C","V","E"," ","r","e","p","o","r","t","e","d"," ","t","h","i","s"," ","y","e","a","r"," ","o","n"," ","T","C","P">>,
        should_use |-> [use_rag |-> FALSE, use_logs |-> FALSE, use_web_search |-> TRUE]],
       [query |-> <<"i","s"," ","t","h","e","r","e"," ","a"," ","C","V","E"," ","o","n"," ","T","L","S">>,
        should_use |-> [use_rag |-> FALSE, use_logs |-> FALSE, use_web_search |-> TRUE]],
       [query |-> <<"s","h","o","w"," ","f","a","i","l","e","d"," ","l","o","g","i","n","s"," ","t","o","d","a","y">>,
        should_use |-> [use_rag |-> FALSE, use_logs |-> TRUE, use_web_search |-> FALSE]],
       [query |-> <<"w","h","a","t"," ","i","s"," ","o","u","r"," ","p","a","s","s","w","o","r","d"," ","p","o","l","i","c","y">>,
        should_use |-> [use_rag |-> TRUE, use_logs |-> FALSE, use_web_search |-> FALSE]],
       [query |-> <<"l","a","t","e","s","t"," ","r","a","n","s","o","m","w","a","r","e"," ","t","h","r","e","a","t","s">>,
        should_use |-> [use_rag |-> FALSE, use_logs |-> FALSE, use_web_search |-> TRUE]],
       [query |-> <<"c","h","e","c","k"," ","I","P"," ","r","e","p","u","t","a","t","i","o","n"," ","f","o","r"," ","1",".","2",".","3",".","4">>,
        should_use |-> [use_rag |-> FALSE, use_logs |-> FALSE, use_web_search |-> TRUE]] >>

\* the messages decide_tools is applied to
AgentQueries == {test_cases[i].query : i \in 1..Len(test_cases)} \cup Queries

InitAgent ==
    /\ probe \in {[fn |-> "decide_tools", args |-> [user_msg |-> q, llm |-> llm],
                   exc |-> "none", result |-> <<>>, done |-> FALSE] :
                     q \in AgentQueries, llm \in LlmOutcomes}
    /\ config_file = Cfg_none
    /\ store = Store_missing
    /\ matcher_instance = NoMatcher
    /\ router_instance = NoRouter
    /\ log = <<>>
    /\ last = NoCall
    /\ clock = 0
    /\ ingest = NoIngest
    /\ feedback = <<>>

\* decide_tools(user_msg)
DecideTools ==
    /\ probe.fn = "decide_tools"
    /\ ~probe.done
    /\ probe' = Called("decide_tools", probe.args, "none",
                       decide_tools(probe.args.user_msg, probe.args.llm))
    /\ UNCHANGED <<config_file, matcher_instance, router_instance, store, log, last, clock,
                   feedback, ingest>>

NextAgent == DecideTools

SpecAgent == InitAgent /\ [][NextAgent]_vars

(***************************************************************************)
(* Vocabulary of the properties.  They are stated on `last`, the latest    *)
(* route() call, and on the state that call ran in: config_file, store and *)
(* router_instance have not changed since, matcher_instance is the matcher *)
(* as the call left it.                                                    *)
(***************************************************************************)
Method(d) == Get(d, "method", "unknown")

Flags(d) ==
    <<Get(d, "use_rag", FALSE), Get(d, "use_logs", FALSE), Get(d, "use_web_search", FALSE)>>

AnyFlag(d) == \E i \in 1..3 : Flags(d)[i]

\* what the idempotence property compares: method, category and route flags
View(d) == [method |-> Method(d), category |-> Get(d, "category", "unknown"), flags |-> Flags(d)]

Priority(rule) == Get(rule, "priority", 0)

LoadedRules == matcher_instance.rules

\* the loaded rules that match the query of the latest call
Matching ==
    {i \in 1..Len(LoadedRules) :
        LET m == matches_rule(last.query, LoadedRules[i]) IN m.exc = "none" /\ m.val}

\* the loaded rules whose evaluation on that query raises
Failing ==
    {i \in 1..Len(LoadedRules) : matches_rule(last.query, LoadedRules[i]).exc # "none"}

\* the decision configured on loaded rule i
IsOverrideOf(d, i) ==
    LET rule == LoadedRules[i]
        rt   == Get(rule, "route", EmptyDict)
    IN /\ Method(d) = "override"
       /\ Get(d, "confidence", -1) = One
       /\ Get(d, "matched_rule", "") = Get(rule, "name", "unknown")
       /\ Flags(d) = Flags(rt)
       /\ Get(d, "category", "") = Get(rule, "category", "unknown")
       /\ Get(d, "reason", <<>>) = Get(rule, "reason", <<"override:unknown">>)

\* the Rule Matcher returns a decision for the query of the latest call
OverrideDecides ==
    LET r == check_overrides(matcher_instance, last.query)
    IN r.exc = "none" /\ DOMAIN r.val # {}

\* the router holds a collection
IndexUsable == router_instance.initialized /\ router_instance.collection # 0

\* the collection the router holds answers queries
StoreAnswers ==
    IndexUsable /\ ~store.fault /\ store.present /\ store.gen = router_instance.collection

HasNearest == StoreAnswers /\ Len(store.examples) > 0

\* distance from the query of the latest call to the nearest example
TopDistance ==
    LET ds == {store.examples[i].dist[last.query] : i \in 1..Len(store.examples)}
    IN CHOOSE d \in ds : \A e \in ds : d <= e

\* the similarity s of the nearest example, 1 - distance / 2, in units of 1 / One
S == (One * (200 - TopDistance)) \div 200

HasWarning == "warning" \in DOMAIN last.result

LastTier == last.tiers[Len(last.tiers)]

\* word occurs in query, letter case of the query ignored
OccursIn(word, query) ==
    \E start \in 0..(Len(query) - Len(word)) :
        \A k \in 1..Len(word) : LowerChar(query[start + k]) = word[k]

HasTerm(words, query) == \E i \in 1..Len(words) : OccursIn(words[i], query)

(***************************************************************************)
(* C1: whenever at least one loaded override rule matches the query,       *)
(* route() returns the decision of a matching rule of highest priority     *)
(* among the matching ones: method override, confidence 1.0, and the       *)
(* name, route flags, category and reason configured on that rule.         *)
(* Violated: a rule of higher priority whose evaluation raises ends the    *)
(* whole override tier (see C10).                                          *)
(***************************************************************************)
C1_HighestPriorityMatchWins ==
    (last.called /\ Matching # {}) =>
        \E i \in Matching :
            /\ \A j \in Matching : Priority(LoadedRules[j]) <= Priority(LoadedRules[i])
            /\ IsOverrideOf(last.result, i)

(***************************************************************************)
(* C2: route() consults the tiers in the order override, semantic,         *)
(* fallback and stops at the first that yields a decision: the Example     *)
(* Index is queried only when the Rule Matcher returned no decision, the   *)
(* fallback is evaluated only when the semantic tier yielded none, and     *)
(* the method of the decision names the tier that produced it.             *)
(***************************************************************************)
C2_TiersInOrder ==
    last.called =>
        /\ last.tiers \in {<<"override">>, <<"override", "semantic">>,
                           <<"override", "fallback">>,
                           <<"override", "semantic", "fallback">>}
        /\ Method(last.result) = LastTier
        /\ (Len(last.tiers) = 1 <=> OverrideDecides)
        /\ ((Len(last.tiers) > 1 /\ last.tiers[2] = "semantic")
               <=> (~OverrideDecides /\ IndexUsable))
        /\ (LastTier = "semantic" =>
               semantic_search(router_instance.collection, store, last.query).exc = "none")
        /\ (LastTier = "fallback" =>
               ~(IndexUsable /\ semantic_search(router_instance.collection, store,
                                                last.query).exc = "none"))

\* a call that went through all three tiers
C2_Witness ==
    /\ last.called
    /\ last.tiers = <<"override", "semantic", "fallback">>
    /\ Method(last.result) = "fallback"
    /\ LoadedRules # <<>>

(***************************************************************************)
(* C3 as stated: with no override decision and a nearest example of        *)
(* similarity s, s >= HIGH_CONFIDENCE_THRESHOLD gives method semantic      *)
(* without the low-confidence warning and MIN_CONFIDENCE_THRESHOLD <= s <  *)
(* HIGH_CONFIDENCE_THRESHOLD gives method semantic with the warning.       *)
(***************************************************************************)
C3_WarningBelowHigh ==
    (last.called /\ ~OverrideDecides /\ HasNearest) =>
        /\ S >= HIGH_CONFIDENCE_THRESHOLD =>
              (Method(last.result) = "semantic" /\ ~HasWarning)
        /\ (MIN_CONFIDENCE_THRESHOLD <= S /\ S < HIGH_CONFIDENCE_THRESHOLD) =>
              (Method(last.result) = "semantic" /\ HasWarning)

(***************************************************************************)
(* C3 amended: the boundary of the warning is                              *)
(* SEMANTIC_SIMILARITY_THRESHOLD: s >= SEMANTIC_SIMILARITY_THRESHOLD gives *)
(* method semantic without the warning, MIN_CONFIDENCE_THRESHOLD <= s <    *)
(* SEMANTIC_SIMILARITY_THRESHOLD gives method semantic with the warning.   *)
(***************************************************************************)
C3_WarningBelowSemantic ==
    (last.called /\ ~OverrideDecides /\ HasNearest) =>
        /\ S >= SEMANTIC_SIMILARITY_THRESHOLD =>
              (Method(last.result) = "semantic" /\ ~HasWarning)
        /\ (MIN_CONFIDENCE_THRESHOLD <= S /\ S < SEMANTIC_SIMILARITY_THRESHOLD) =>
              (Method(last.result) = "semantic" /\ HasWarning)

\* a semantic decision between the two thresholds, returned without warning
C3_Witness ==
    /\ last.called /\ ~OverrideDecides /\ HasNearest
    /\ SEMANTIC_SIMILARITY_THRESHOLD < S /\ S < HIGH_CONFIDENCE_THRESHOLD
    /\ Method(last.result) = "semantic"
    /\ ~HasWarning

(***************************************************************************)
(* C4: with no override decision, route() returns method fallback when     *)
(* the router holds no collection, when the search raises, or when the     *)
(* nearest example's similarity s is below MIN_CONFIDENCE_THRESHOLD; when  *)
(* s >= MIN_CONFIDENCE_THRESHOLD it returns method semantic with the route *)
(* flags labelled on the nearest example and confidence s.                 *)
(***************************************************************************)
C4_SemanticOrFallback ==
    (last.called /\ ~OverrideDecides) =>
        IF ~StoreAnswers THEN Method(last.result) = "fallback"
        ELSE IF Len(store.examples) = 0 THEN TRUE
        ELSE IF S < MIN_CONFIDENCE_THRESHOLD THEN Method(last.result) = "fallback"
        ELSE /\ Method(last.result) = "semantic"
             /\ Get(last.result, "confidence", -1) = S
             /\ \E i \in 1..Len(store.examples) :
                   /\ store.examples[i].dist[last.query] = TopDistance
                   /\ Flags(last.result) = Flags(store.examples[i].metadata)

\* the nearest example is just below the minimum and the fallback decided
C4_Witness ==
    /\ last.called /\ ~OverrideDecides /\ HasNearest
    /\ S = MIN_CONFIDENCE_THRESHOLD - 1
    /\ Method(last.result) = "fallback"

(***************************************************************************)
(* C5: the fallback tier tests the threat terms, then the auth terms, then *)
(* the policy terms against the lower-cased query; the first set with a    *)
(* term in the query decides (web search only, logs only, rag only) with   *)
(* confidence 0.5, no set gives the default route (rag only) with          *)
(* confidence 0.3, and the method is fallback in every case.               *)
(***************************************************************************)
C5_FallbackPrecedence ==
    (last.called /\ LastTier = "fallback") =>
        LET d == last.result
            q == last.query
            is(flags, conf) == Flags(d) = flags /\ Get(d, "confidence", -1) = conf
        IN /\ Method(d) = "fallback"
           /\ IF HasTerm(threat_keywords, q) THEN is(<<FALSE, FALSE, TRUE>>, One \div 2)
              ELSE IF HasTerm(auth_keywords, q) THEN is(<<FALSE, TRUE, FALSE>>, One \div 2)
              ELSE IF HasTerm(policy_keywords, q) THEN is(<<TRUE, FALSE, FALSE>>, One \div 2)
              ELSE is(<<TRUE, FALSE, FALSE>>, (3 * One) \div 10)

\* the fallback decided a query holding terms of two sets
C5_Witness ==
    /\ last.called /\ LastTier = "fallback"
    /\ HasTerm(auth_keywords, last.query) /\ HasTerm(policy_keywords, last.query)
    /\ Flags(last.result) = <<FALSE, TRUE, FALSE>>

(***************************************************************************)
(* C6: route() never raises to its caller: for every query, the empty one  *)
(* included, and whatever the state of the rule configuration, the Example *)
(* Index and the Decision Log, the call returns a decision.                *)
(***************************************************************************)
C6_NeverRaises ==
    last.called =>
        /\ last.exc = "none"
        /\ Method(last.result) \in {"override", "semantic", "fallback"}
        /\ {"use_rag", "use_logs", "use_web_search", "confidence", "reason"}
              \subseteq DOMAIN last.result

\* a call during which a rule raised, the Example Index raised and the
\* Decision Log refused the row
C6_Witness ==
    /\ last.called /\ last.exc = "none"
    /\ Failing # {}
    /\ IndexUsable /\ store.fault
    /\ last.log_decision /\ ~last.logged
    /\ Method(last.result) = "fallback"

(***************************************************************************)
(* C7 as stated: every decision route() returns, whichever tier produced   *)
(* it, has at least one of use_rag, use_logs, use_web_search true.         *)
(***************************************************************************)
C7_SomeFlagAlways == last.called => AnyFlag(last.result)

(***************************************************************************)
(* C7 amended: every decision of the fallback tier, and the default route  *)
(* returned for an empty Example Index, has at least one flag true; an     *)
(* override decision carries the flags of the matching rule's route and a  *)
(* semantic decision the flags labelled on the nearest example.            *)
(***************************************************************************)
C7_FlagsByTier ==
    last.called =>
        /\ LastTier = "fallback" => AnyFlag(last.result)
        /\ Method(last.result) = "override" =>
              \E i \in Matching :
                 Flags(last.result) = Flags(Get(LoadedRules[i], "route", EmptyDict))
        /\ Method(last.result) = "semantic" =>
              IF Len(store.examples) = 0 THEN AnyFlag(last.result)
              ELSE \E i \in 1..Len(store.examples) :
                      /\ store.examples[i].dist[last.query] = TopDistance
                      /\ Flags(last.result) = Flags(store.examples[i].metadata)

\* the fallback tier answered a query holding no term of any set
C7_Witness ==
    /\ last.called /\ LastTier = "fallback"
    /\ last.query = Q_zzqx
    /\ Flags(last.result) = <<TRUE, FALSE, FALSE>>

(***************************************************************************)
(* C8: with the rule configuration and the Example Index unchanged, every  *)
(* route(q) call returns the method, category and route flags that a call  *)
(* on a freshly loaded matcher returns, whatever calls came before it.     *)
(***************************************************************************)
C8_RepeatedCallsAgree ==
    last.called =>
        \A ms \in ExecTimes :
            View(last.result)
               = View(route(router_instance, NoMatcher, config_file, store,
                            last.query, ms).val)

\* a call on a matcher that earlier calls have changed
C8_Witness ==
    /\ last.called
    /\ Method(last.result) = "override"
    /\ \E i \in Matching :
          /\ IsOverrideOf(last.result, i)
          /\ Len(Get(LoadedRules[i], "patterns", <<>>)) >= 3
          /\ "pattern" \in DOMAIN LoadedRules[i]

\* keyword occurs in query, letter case of both ignored
CaseInsensitiveSubstring(keyword, query) ==
    \E start \in 0..(Len(query) - Len(keyword)) :
        \A k \in 1..Len(keyword) : LowerChar(query[start + k]) = LowerChar(keyword[k])

(***************************************************************************)
(* C9: a keyword rule with require_all true matches a query iff every      *)
(* keyword is a case-insensitive substring of the query; with require_all  *)
(* false or absent it matches iff at least one keyword is.                 *)
(***************************************************************************)
C9_KeywordRule ==
    (probe.fn = "matches_keywords" /\ probe.done) =>
        LET keywords == Get(probe.rule, "keywords", <<>>)
            occurs(i) == CaseInsensitiveSubstring(keywords[i], probe.query)
        IN IF Get(probe.rule, "require_all", FALSE)
           THEN probe.result <=> \A i \in 1..Len(keywords) : occurs(i)
           ELSE probe.result <=> \E i \in 1..Len(keywords) : occurs(i)

\* a require_all rule matched on two keywords whose case differs from the query's
C9_Witness ==
    /\ probe.fn = "matches_keywords" /\ probe.done /\ probe.result
    /\ Get(probe.rule, "require_all", FALSE)
    /\ Get(probe.rule, "keywords", <<>>)
          = <<<<"l","o","g","i","n">>, <<"P","O","L","I","C","Y">>>>
    /\ probe.query = Q_login_policy

(***************************************************************************)
(* C10: a rule whose evaluation fails is skipped alone: when rules ahead   *)
(* of a matching well-formed rule fail and none of them matches, route()   *)
(* still returns that rule as the override.                                *)
(* Violated: only re.error is caught per pattern; any other exception of   *)
(* re.search leaves check_overrides and route() abandons the tier.         *)
(***************************************************************************)
C10_FailingRuleSkippedAlone ==
    last.called =>
        \A i \in Matching :
            ((\A j \in 1..(i - 1) : j \notin Matching) /\ (\E j \in 1..(i - 1) : j \in Failing))
               => IsOverrideOf(last.result, i)

\* a well-formed rule: a mapping with a type the matcher knows and its terms
WellFormed(entry) ==
    /\ IsMapping(entry)
    /\ \/ Lower(Get(entry, "type", <<>>)) = TypeRegex
             /\ ("pattern" \in DOMAIN entry \/ "patterns" \in DOMAIN entry)
       \/ Lower(Get(entry, "type", <<>>)) = TypeKeyword /\ "keywords" \in DOMAIN entry

\* number of positions of seq that hold x
Count(seq, x) == Cardinality({i \in 1..Len(seq) : seq[i] = x})

(***************************************************************************)
(* C11: after loading a ruleset, every well-formed rule of the file is     *)
(* active (as many times as the file lists it) and the active rules are    *)
(* ordered by priority descending, whatever malformed entries stand next   *)
(* to them.                                                                *)
(* Violated: one entry that is no mapping makes sorted() raise and the     *)
(* matcher is left with no rules at all.                                   *)
(***************************************************************************)
C11_MalformedRejectedAlone ==
    matcher_instance.created =>
        /\ \A i \in 1..Len(config_file.overrides) :
              WellFormed(config_file.overrides[i]) =>
                  Count(LoadedRules, config_file.overrides[i])
                      = Count(config_file.overrides, config_file.overrides[i])
        /\ \A i \in 1..Len(LoadedRules), j \in 1..Len(LoadedRules) :
              i < j => Priority(LoadedRules[i]) >= Priority(LoadedRules[j])

(***************************************************************************)
(* C12: if the rule configuration file is absent or cannot be parsed, the  *)
(* override tier is disabled: check_overrides returns no match for every   *)
(* query, and route() still returns a decision, produced by the semantic   *)
(* or the fallback tier.                                                   *)
(***************************************************************************)
C12_NoConfigNoOverride ==
    (last.called /\ config_file.status # "ok") =>
        /\ ~matcher_instance.initialized
        /\ \A q \in Queries :
              LET c == check_overrides(matcher_instance, q)
              IN c.exc = "none" /\ c.val = NoDecision
        /\ last.exc = "none"
        /\ Method(last.result) \in {"semantic", "fallback"}
        /\ LastTier \in {"semantic", "fallback"}

\* both kinds of unusable file have been routed against, the corrupt one
\* answered by the semantic tier
C12_Witness ==
    /\ last.called
    /\ config_file = Cfg_corrupt
    /\ matcher_instance.created
    /\ Method(last.result) = "semantic"
    /\ last.tiers = <<"override", "semantic">>

\* the step is a route() call that has just returned
RouteReturns == last'.called /\ vars' # vars

\* row records the method, route flags, confidence and category of decision d
Records(row, d) ==
    /\ row.method = Method(d)
    /\ <<row.use_rag, row.use_logs, row.use_web_search>>
          = <<IntOf(Flags(d)[1]), IntOf(Flags(d)[2]), IntOf(Flags(d)[3])>>
    /\ row.confidence = Get(d, "confidence", Null)
    /\ row.category = Get(d, "category", "unknown")

(***************************************************************************)
(* C13: a failure of the Decision Log write (the logger cannot be          *)
(* constructed, or its insert fails) is never propagated: route() raises   *)
(* nothing and returns exactly the decision it computes from the rules,    *)
(* the router and the store, the one it returns when the write succeeds.   *)
(***************************************************************************)
C13_LogFailureNotPropagated ==
    [][(RouteReturns /\ last'.write_failed) =>
          \E ms \in ExecTimes :
             LET r == route(router_instance, matcher_instance, config_file, store,
                            last'.query, ms)
             IN /\ last'.exc = "none"
                /\ last'.result = r.val
                /\ matcher_instance' = r.matcher]_vars

\* a call answered by a rule whose write failed
C13_Witness ==
    /\ last.called
    /\ last.log_decision
    /\ last.write_failed
    /\ ~last.logged
    /\ Method(last.result) = "override"
    /\ log = <<>>

Reviewed == probe.fn = "get_low_confidence_queries" /\ probe.done /\ ~probe.fault

\* row a comes before row b in the review order
Before(a, b) ==
    \/ a.confidence < b.confidence
    \/ a.confidence = b.confidence /\ a.timestamp > b.timestamp

\* result lists, in review order, the first `limit` of the rows at idx
IsReviewOf(result, idx, limit) ==
    \E chosen \in SUBSET idx :
        /\ Cardinality(chosen) = IF Cardinality(idx) < limit THEN Cardinality(idx) ELSE limit
        /\ Len(result) = Cardinality(chosen)
        /\ \A i \in chosen : \A j \in idx \ chosen : Before(log[i], log[j])
        /\ \A i \in chosen : \E k \in 1..Len(result) : result[k] = review_tuple(log[i])
        /\ \A k \in 1..Len(result) : \E i \in chosen :
              /\ result[k] = review_tuple(log[i])
              /\ \A l \in (k + 1)..Len(result) : \E j \in chosen :
                    result[l] = review_tuple(log[j]) /\ Before(log[i], log[j])

(***************************************************************************)
(* C15 as stated: get_low_confidence_queries(threshold, limit) returns the *)
(* logged decisions whose confidence is below threshold, at most limit of  *)
(* them, by confidence ascending and, among equal confidences, most recent *)
(* first; every decision below threshold is eligible, whatever its method. *)
(* Violated: decisions whose method is override are never returned.        *)
(***************************************************************************)
C15_LowConfidenceAnyMethod ==
    Reviewed =>
        IsReviewOf(probe.result,
                   {i \in 1..Len(log) : log[i].confidence < probe.threshold},
                   probe.limit)

(***************************************************************************)
(* C15, amended: get_low_confidence_queries(threshold, limit) returns the  *)
(* logged decisions whose method is not override and whose confidence is   *)
(* below threshold, at most limit of them, by confidence ascending and,    *)
(* among equal confidences, most recent first.                             *)
(***************************************************************************)
C15_LowConfidenceExceptOverride ==
    Reviewed =>
        IsReviewOf(probe.result,
                   {i \in 1..Len(log) : /\ log[i].confidence < probe.threshold
                                        /\ log[i].method # "override"},
                   probe.limit)

\* a review above 1.0 of a log holding an override decision and two
\* decisions of equal confidence, both of which it returns
C15_Witness ==
    /\ Reviewed
    /\ probe.threshold > One
    /\ \E i \in 1..Len(log) : log[i].method = "override"
    /\ Len(probe.result) = 2
    /\ probe.result[1][2] = probe.result[2][2]
    /\ probe.result[1][6] > probe.result[2][6]

\* the latest Feedback Store call
FeedbackCall(fn) == probe.fn = fn /\ probe.done

(***************************************************************************)
(* C16: Feedback Store operations follow the persistence error policy: a   *)
(* persistence failure during record_feedback, analyze_feedback_patterns   *)
(* or get_feedback_stats never reaches the caller as a raised exception.   *)
(* Violated: the three methods use try / finally without an except clause. *)
(***************************************************************************)
C16_FeedbackFailureCaught ==
    (\/ FeedbackCall("record_feedback")
     \/ FeedbackCall("analyze_feedback_patterns")
     \/ FeedbackCall("get_feedback_stats")) => probe.exc = "none"

\* the records that count at the time of the latest analysis: unprocessed,
\* incorrect, with an expected route, inside the window
Counting ==
    {i \in 1..Len(feedback) : /\ feedback[i].processed = 0
                              /\ feedback[i].feedback_type = "incorrect"
                              /\ feedback[i].expected_route # SqlNull
                              /\ feedback[i].timestamp >= clock - probe.args.days}

\* (query, actual route, expected route) of a record, routes compared as dicts
TupleOfRecord(i) ==
    <<feedback[i].query, json_loads(feedback[i].actual_route).val,
      json_loads(feedback[i].expected_route[1]).val>>

TupleOfPattern(pattern) ==
    <<pattern.query, pattern.actual_route.val, pattern.expected_route.val>>

(***************************************************************************)
(* C17: after any sequence of record_feedback and mark_as_processed calls, *)
(* analyze_feedback_patterns(days, min_occurrences) returns exactly one    *)
(* pattern per tuple (query, actual_route, expected_route) whose number of *)
(* counting records is at least min_occurrences, with occurrences equal to *)
(* that number, and no pattern for any other tuple.                        *)
(* Violated: groups are formed on the JSON text of the routes, so one      *)
(* route written with its keys in two orders forms two groups.             *)
(***************************************************************************)
C17_OnePatternPerTuple ==
    (FeedbackCall("analyze_feedback_patterns") /\ probe.exc = "none") =>
        LET result == probe.result
            number(t) == Cardinality({i \in Counting : TupleOfRecord(i) = t})
            patterns(t) == {k \in 1..Len(result) : TupleOfPattern(result[k]) = t}
        IN /\ \A i \in Counting :
                 LET t == TupleOfRecord(i)
                 IN IF number(t) >= probe.args.min_occurrences
                    THEN /\ Cardinality(patterns(t)) = 1
                         /\ \A k \in patterns(t) : result[k].occurrences = number(t)
                    ELSE patterns(t) = {}
           /\ \A k \in 1..Len(result) :
                 \E i \in Counting : TupleOfRecord(i) = TupleOfPattern(result[k])

(***************************************************************************)
(* C20: mark_as_processed(query) is idempotent, a further call for the     *)
(* same query leaving the Feedback Store as the first left it, and the     *)
(* processed flag is one-way: a record is created with processed = 0, no   *)
(* step removes a record or takes a processed flag from 1 back to 0.       *)
(***************************************************************************)
C20_ProcessedOneWay ==
    [][/\ Len(feedback') >= Len(feedback)
       /\ \A i \in 1..Len(feedback) :
             /\ feedback[i].processed = 1 => feedback'[i].processed = 1
             /\ [feedback'[i] EXCEPT !.processed = 0] = [feedback[i] EXCEPT !.processed = 0]
       /\ \A i \in (Len(feedback) + 1)..Len(feedback') : feedback'[i].processed = 0
       /\ (probe'.fn = "mark_as_processed" /\ probe'.exc = "none") =>
             /\ \A i \in 1..Len(feedback') :
                   feedback'[i].query = probe'.args => feedback'[i].processed = 1
             /\ mark_as_processed(feedback', probe'.args, FALSE).rows = feedback']_vars

\* a query marked while it had a record, another record left unprocessed
C20_Witness ==
    /\ FeedbackCall("mark_as_processed")
    /\ probe.exc = "none"
    /\ \E i \in 1..Len(feedback) :
          feedback[i].query = probe.args /\ feedback[i].processed = 1
    /\ \E i \in 1..Len(feedback) : feedback[i].processed = 0

(***************************************************************************)
(* C18: every pattern analyze_feedback_patterns returns has priority high  *)
(* exactly when its occurrences are at least 5 and priority medium         *)
(* otherwise, and the list is ordered by occurrences descending.           *)
(***************************************************************************)
C18_PriorityAndOrder ==
    (FeedbackCall("analyze_feedback_patterns") /\ probe.exc = "none") =>
        /\ \A k \in 1..Len(probe.result) :
              probe.result[k].priority
                  = IF probe.result[k].occurrences >= 5 THEN "high" ELSE "medium"
        /\ \A k \in 1..Len(probe.result), l \in 1..Len(probe.result) :
              k < l => probe.result[k].occurrences >= probe.result[l].occurrences

\* three patterns: one above the limit, one at it, one just below
C18_Witness ==
    /\ FeedbackCall("analyze_feedback_patterns")
    /\ probe.exc = "none"
    /\ Len(probe.result) = 3
    /\ probe.result[1].occurrences = 6 /\ probe.result[1].priority = "high"
    /\ probe.result[2].occurrences = 5 /\ probe.result[2].priority = "high"
    /\ probe.result[3].occurrences = 4 /\ probe.result[3].priority = "medium"

\* the flag of a route as the claim reads it: absent is off
On(d, key) == key \in DOMAIN d.val /\ d.val[key]

(***************************************************************************)
(* C19: generate_training_examples(patterns, auto_approve_threshold)       *)
(* returns one candidate per input pattern, in order; its category follows *)
(* the precedence use_web_search > use_logs > use_rag > unknown on the     *)
(* expected route, and auto_approved is occurrences >= threshold whatever  *)
(* else the pattern holds.                                                 *)
(***************************************************************************)
C19_OneCandidatePerPattern ==
    (FeedbackCall("generate_training_examples") /\ probe.args.patterns # SqlNull) =>
        LET patterns == probe.args.patterns[1]
            result == probe.result
        IN /\ probe.exc = "none"
           /\ Len(result) = Len(patterns)
           /\ \A i \in 1..Len(patterns) :
                 LET expected == patterns[i].expected_route
                 IN /\ result[i].query = patterns[i].query
                    /\ result[i].occurrences = patterns[i].occurrences
                    /\ On(expected, "use_web_search") =>
                          result[i].category = "threat_intelligence"
                    /\ (~On(expected, "use_web_search") /\ On(expected, "use_logs")) =>
                          result[i].category = "authentication_logs"
                    /\ (/\ ~On(expected, "use_web_search")
                        /\ ~On(expected, "use_logs")
                        /\ On(expected, "use_rag")) =>
                          result[i].category = "policy_guidance"
                    /\ (/\ ~On(expected, "use_web_search")
                        /\ ~On(expected, "use_logs")
                        /\ ~On(expected, "use_rag")) => result[i].category = "unknown"
                    /\ result[i].auto_approved
                          = (patterns[i].occurrences >= probe.args.auto_approve_threshold)

\* two candidates: all three flags set on the first, approved although its
\* pattern has priority medium on the second
C19_Witness ==
    /\ FeedbackCall("generate_training_examples")
    /\ probe.args.patterns # SqlNull
    /\ Len(probe.result) = 2
    /\ probe.result[1].category = "threat_intelligence"
    /\ probe.result[1].use_rag /\ probe.result[1].use_logs
    /\ ~probe.result[1].auto_approved
    /\ probe.result[2].category = "authentication_logs"
    /\ probe.result[2].priority = "medium"
    /\ probe.result[2].auto_approved

(***************************************************************************)
(* Export and the processed flag                                           *)
(***************************************************************************)
\* the step is a call of export_training_examples that returned normally
ExportReturns ==
    /\ probe'.fn = "export_training_examples"
    /\ probe'.done
    /\ probe'.exc = "none"

\* the training example ex was made from the pattern of record i
MadeFrom(ex, i) ==
    /\ ex.query = feedback[i].query
    /\ \A key \in {"use_rag", "use_logs", "use_web_search"} :
          ex[key] = Flag(json_loads(feedback[i].expected_route[1]), key)

\* the records that contributed to a candidate of the exported file
Contributors(file) ==
    {i \in Selected(feedback, clock - DefaultDays) :
        \E n \in 1..Len(file) : MadeFrom(file[n], i)}

\* C21: a record is mutated exactly once, when it is exported into a training
\* candidate: after export_training_examples every record that contributed to
\* an exported candidate has processed = 1, so an export that follows another
\* one without new feedback does not yield a candidate of the same pattern
\* again.
C21_ExportMarksProcessed ==
    [][ExportReturns =>
          /\ \A i \in Contributors(probe'.result.file[1]) : feedback'[i].processed = 1
          /\ (probe.fn = "export_training_examples" /\ probe.exc = "none")
                => \A i \in Contributors(probe.result.file[1]) :
                      i \notin Contributors(probe'.result.file[1])]_vars

(***************************************************************************)
(* Statistics against the pattern analysis                                 *)
(***************************************************************************)
\* C22: unprocessed_patterns of get_feedback_stats(days) equals the number of
\* patterns analyze_feedback_patterns(days, min_occurrences = 1) returns on
\* the same store, and can_generate_examples is true exactly when that
\* analysis returns at least one pattern.
C22_StatsCountPatterns ==
    (FeedbackCall("get_feedback_stats") /\ probe.exc = "none")
        => \A p \in analyze_feedback_patterns(feedback, clock, probe.args.days, 1, FALSE) :
              /\ probe.result.unprocessed_patterns = Len(p.val)
              /\ probe.result.can_generate_examples <=> Len(p.val) >= 1

(***************************************************************************)
(* Learning and the live router                                            *)
(***************************************************************************)
\* method, category and flags route(q) returns for the given router, matcher,
\* rule file and example store
RouteView(router, instance, file, st, q) ==
    {View(route(router, instance, file, st, q, ms).val) : ms \in ExecTimes}

\* the step is an operation of the Feedback Store
FeedbackStep ==
    \/ feedback' # feedback
    \/ /\ probe'.fn # "none"
       /\ \/ probe'.fn # probe.fn
          \/ probe'.exc # probe.exc
          \/ probe'.args # probe.args
          \/ probe'.result # probe.result

\* the step appended to the Decision Log
LogStep == log' # log

\* C23: there is no automatic retraining.  No operation of the Feedback Store
\* (record, analyze, generate, export, mark processed) modifies the rule file,
\* the loaded ruleset, the router or the Example Index, and neither such an
\* operation nor an append to the Decision Log changes the method, category
\* and flags route(q) returns for any q: histories that differ only in these
\* operations route alike.
C23_NoAutomaticRetraining ==
    [][/\ FeedbackStep =>
             /\ config_file' = config_file
             /\ matcher_instance' = matcher_instance
             /\ router_instance' = router_instance
             /\ store' = store
       /\ (FeedbackStep \/ LogStep) =>
             \/ <<router_instance', matcher_instance', config_file', store'>>
                   = <<router_instance, matcher_instance, config_file, store>>
             \/ \A router \in {router_instance'}, instance \in {matcher_instance'},
                   file \in {config_file'}, st \in {store'}, q \in Queries :
                      RouteView(router, instance, file, st, q)
                         = RouteView(router_instance, matcher_instance, config_file, store, q)]_vars

\* feedback was exported into candidates next to a query that the semantic tier
\* routed and that was appended to the Decision Log
C23_Witness ==
    /\ FeedbackCall("export_training_examples")
    /\ probe.exc = "none"
    /\ probe.result.count > 0
    /\ last.called
    /\ last.logged
    /\ Method(last.result) = "semantic"

(***************************************************************************)
(* The loaded ruleset under route()                                        *)
(***************************************************************************)
\* C24: the loaded ruleset is immutable after load: no route() call changes
\* the rule list, its order or any field of a rule, in particular the pattern
\* list of a regex rule that defines both a single pattern and a pattern list.
C24_RulesetImmutable ==
    [][(RouteReturns /\ matcher_instance.created)
          => matcher_instance'.rules = matcher_instance.rules]_vars

(***************************************************************************)
(* Routing while the Example Index is rebuilt                              *)
(***************************************************************************)
\* a router holding the collection of a complete index
Reader == [created |-> TRUE, initialized |-> TRUE, collection |-> 1]

\* what route(q) returns when it reads the complete index db
ReadOf(db, q) == RouteView(Reader, matcher_instance, config_file, db, q)

\* the runs of the ingest script that are inside create_routing_collection
Rebuilding(runs) == {p \in Rebuilders : runs[p].pc \in {"opened", "deleted", "created"}}

\* C25: while a rebuild of the Example Index runs concurrently with routing,
\* every route() call reads either the complete pre-rebuild index or the
\* complete new index, never an absent or partially populated collection, and
\* two rebuilds never run concurrently with each other.
C25_RebuildIsolated ==
    [][/\ RouteReturns =>
             View(last'.result) \in ReadOf(Store_A, last'.query) \cup ReadOf(Store_B, last'.query)
       /\ Cardinality(Rebuilding(ingest')) <= 1]_vars

(***************************************************************************)
(* Confidence and distance                                                 *)
(***************************************************************************)
\* C26: every decision route() returns has confidence within [0, 1]: distance
\* 0 gives similarity 1.0, distance 2 gives 0.0, and a reported distance
\* outside [0, 2] never produces a confidence below 0 or above 1.
C26_ConfidenceInUnitInterval ==
    /\ Similarity(0) = One
    /\ Similarity(200) = 0
    /\ (last.called /\ last.exc = "none")
          => (0 <= last.result.confidence /\ last.result.confidence <= One)

(***************************************************************************)
(* decide_tools against its routing test                                   *)
(***************************************************************************)
\* C27: decide_tools routes a query about CVEs, vulnerabilities, threats or IP
\* reputation to external intelligence only (use_web_search true, use_rag and
\* use_logs false), a log / login query to logs only and a policy query to
\* corpus retrieval only: for each case of the routing test the result has the
\* three flags the case expects.
C27_RoutingTestCases ==
    FeedbackCall("decide_tools")
        => \A i \in 1..Len(test_cases) :
              probe.args.user_msg = test_cases[i].query
                 => \A key \in {"use_rag", "use_logs", "use_web_search"} :
                       dict_get(probe.result, key) = Some(test_cases[i].should_use[key])

(***************************************************************************)
(* Decisions of the semantic tier                                          *)
(***************************************************************************)
\* C28: every decision returned with method semantic comes from a labelled
\* example: its confidence is at least MIN_CONFIDENCE_THRESHOLD and it carries
\* the matched example; the default route is only ever returned with method
\* fallback, also when the initialized Example Index has no example for the
\* query.
C28_SemanticFromExample ==
    (last.called /\ last.exc = "none") =>
        /\ Method(last.result) = "semantic" =>
              /\ last.result.confidence >= MIN_CONFIDENCE_THRESHOLD
              /\ "matched_example" \in DOMAIN last.result
        /\ last.result.reason = DEFAULT_ROUTE.reason => Method(last.result) = "fallback"

(***************************************************************************)
(* Grouping by route, not by the text of the route                         *)
(***************************************************************************)
\* record i was given an expected route: the stored one, or the empty mapping
\* of G_empty, the only input of its query
Supplied(i) ==
    feedback[i].expected_route # SqlNull \/ feedback[i].query = G_empty.query

\* the expected route of record i as a flag mapping
ExpectedOf(i) ==
    IF feedback[i].expected_route = SqlNull THEN EmptyDict
    ELSE json_loads(feedback[i].expected_route[1]).val

\* records i and j have the same query and routes that are equal as mappings
SameRoutes(i, j) ==
    /\ feedback[i].query = feedback[j].query
    /\ json_loads(feedback[i].actual_route).val = json_loads(feedback[j].actual_route).val
    /\ ExpectedOf(i) = ExpectedOf(j)

\* C29: analyze_feedback_patterns puts two unprocessed incorrect records with
\* the same query into one group whenever their actual routes are equal as
\* flag mappings and their expected routes are equal as flag mappings,
\* whatever the key order the routes were supplied in, and a record whose
\* expected route was supplied as the empty mapping counts like any other
\* record with an expected route: every such group of at least
\* min_occurrences records yields a pattern with all of them.
C29_GroupsByMapping ==
    (FeedbackCall("analyze_feedback_patterns") /\ probe.exc = "none") =>
        LET eligible == {i \in 1..Len(feedback) :
                            /\ feedback[i].processed = 0
                            /\ feedback[i].feedback_type = "incorrect"
                            /\ feedback[i].timestamp >= clock - probe.args.days
                            /\ Supplied(i)}
            group(i) == {j \in eligible : SameRoutes(i, j)}
        IN \A i \in eligible :
              Cardinality(group(i)) >= probe.args.min_occurrences
                 => \E k \in 1..Len(probe.result) :
                       /\ probe.result[k].query = feedback[i].query
                       /\ probe.result[k].expected_route.val = ExpectedOf(i)
                       /\ probe.result[k].occurrences = Cardinality(group(i))

(***************************************************************************)
(* Keyword rules without keywords                                          *)
(***************************************************************************)
\* C30: a keyword override rule whose keyword list is empty or missing
\* matches no query, whatever its require_all flag, so such a rule can never
\* capture the routing of every query.
C30_NoKeywordsNoMatch ==
    (probe.fn = "matches_keywords" /\ probe.done
        /\ Len(Get(probe.rule, "keywords", <<>>)) = 0)
       => ~probe.result
====
